---- MODULE Spec2Model ----
(***************************************************************************)
(* Calculation engine of the aviation performance tool: the CG envelope    *)
(* validation (app/services/cg_validation.py) and the mass and balance     *)
(* service (app/services/mass_balance/).                                   *)
(*                                                                         *)
(* Numbers.  The program computes in floating point; the model computes    *)
(* the exact value of every expression.  Weights, fuel quantities and      *)
(* polygon coordinates are integers; an arm is a rational <<n, d>> with    *)
(* d > 0 in lowest terms, because a phase's arm is a quotient              *)
(* moment / weight.  epsilon is a rational <<1, k>>.                       *)
(***************************************************************************)
EXTENDS Integers, Sequences, FiniteSets, TLC

VARIABLES
    cg_call,      \* arguments of a validate_point call: weight, arm, envelope, epsilon
    cg_result,    \* the ValidationResult it returned
    aircraft,     \* the Aircraft snapshot a MassBalanceService was constructed with
    mb_request,   \* arguments of MassBalanceService.calculate
    mb_locals,    \* locals of calculate_moments / validate_phases kept for inspection
    mb_response,  \* the MassBalanceResponse it returned
    perf_request, \* arguments of PerformanceService.calculate
    perf_locals,  \* the per-phase results of _calculate_phase kept for inspection
    perf_response \* the PerformanceResponse it returned

vars == <<cg_call, cg_result, aircraft, mb_request, mb_locals, mb_response,
          perf_request, perf_locals, perf_response>>

(***************************************************************************)
(* Bounds of the model.                                                    *)
(***************************************************************************)
GridArm == 3        \* polygon vertices have arm_m in 1..GridArm
GridWeight == 3     \* polygon vertices have weight_kg in 1..GridWeight
MaxWeightInputs == 2    \* entries of a request's weight_inputs
MaxFuelInputs == 2      \* entries of a request's fuel_inputs

(***************************************************************************)
(* Exact arithmetic helpers.                                               *)
(***************************************************************************)
Abs(x) == IF x < 0 THEN -x ELSE x

RECURSIVE GCD(_, _)
GCD(a, b) == IF b = 0 THEN a ELSE GCD(b, a % b)

\* The rational n/d (d # 0) in lowest terms with a positive denominator.
Rat(n, d) ==
    LET s == IF d < 0 THEN -1 ELSE 1
        g == GCD(Abs(n), Abs(d))
    IN  IF n = 0 THEN <<0, 1>> ELSE <<(s * n) \div g, (s * d) \div g>>

\* None of Python.
None == [none |-> TRUE]

\* epsilon: float = 1e-7, the default of validate_point's parameter.
DefaultEpsilon == <<1, 10000000>>

\* num/den > epsilon, for den > 0 and epsilon = 1/k, without forming num * k.
GtEps(num, den, epsilon) == num > 0 /\ epsilon[2] > den \div num

\* A squared distance dsq = <<n, d>> (n >= 0, d > 0) is at most epsilon^2:
\* n * k * k <= d, without forming the product.
SqLeqEps(dsq, epsilon) ==
    \/ dsq[1] = 0
    \/ (dsq[2] \div dsq[1]) \div epsilon[2] >= epsilon[2]

(***************************************************************************)
(* CGValidationService                                                     *)
(***************************************************************************)

\* _dist_point_to_segment, squared: the point is (px, py) with px = pxa[1]/pxa[2],
\* the segment runs from (x1, y1) to (x2, y2).  The projection parameter t is
\* tn / (l2 * pd); it is clamped to [0, 1] as in the code.  For 0 < t < 1 the
\* squared distance from the point to its projection is cross^2 / l2.
DistSqPointToSegment(pxa, py, x1, y1, x2, y2) ==
    LET pn == pxa[1]
        pd == pxa[2]
        l2 == (x1 - x2) * (x1 - x2) + (y1 - y2) * (y1 - y2)
        tn == (pn - x1 * pd) * (x2 - x1) + (py - y1) * (y2 - y1) * pd
        cross == (pn - x1 * pd) * (y2 - y1) - (py - y1) * pd * (x2 - x1)
        toP1 == <<(pn - x1 * pd) * (pn - x1 * pd) + (py - y1) * pd * (py - y1) * pd, pd * pd>>
        toP2 == <<(pn - x2 * pd) * (pn - x2 * pd) + (py - y2) * pd * (py - y2) * pd, pd * pd>>
    IN  IF l2 = 0 THEN toP1
        ELSE IF tn <= 0 THEN toP1
        ELSE IF tn >= l2 * pd THEN toP2
        ELSE <<cross * cross, l2 * pd * pd>>

\* poly = [(float(p["arm_m"]), float(p["weight_kg"])) for p in envelope.polygon_points]
PolyOf(polygon_points) ==
    [i \in 1..Len(polygon_points) |-> <<polygon_points[i].arm_m, polygon_points[i].weight_kg>>]

\* Index of p2 = poly[(i + 1) % len(poly)] for the 1-based index i.
NextIdx(i, n) == (i % n) + 1

\* Step 1 of validate_point: some edge, the closing edge from the last vertex
\* to the first included, is within epsilon of the point.
OnBoundary_OpenChain(poly, pxa, py, epsilon) ==
    \E i \in 1..(Len(poly) - 1) :
        SqLeqEps(DistSqPointToSegment(pxa, py, poly[i][1], poly[i][2],
                                      poly[i + 1][1], poly[i + 1][2]), epsilon)

OnBoundary(poly, pxa, py, epsilon) ==
    \E i \in 1..Len(poly) :
        LET p1 == poly[i]
            p2 == poly[NextIdx(i, Len(poly))]
        IN  SqLeqEps(DistSqPointToSegment(pxa, py, p1[1], p1[2], p2[1], p2[2]), epsilon)

\* The condition of the ray-casting loop for edge (poly[i], poly[j]):
\*   ((yi > py) != (yj > py)) and (px < (xj - xi) * (py - yi) / (yj - yi) + xi)
\* with the second conjunct evaluated only when the first holds (yj # yi).
RayCrosses_NoStraddle(poly, i, j, pxa, py) ==
    LET xi == poly[i][1]
        yi == poly[i][2]
        xj == poly[j][1]
        yj == poly[j][2]
        pn == pxa[1]
        pd == pxa[2]
    IN  /\ yi # yj
        /\ IF yj - yi > 0
           THEN (pn - xi * pd) * (yj - yi) < (xj - xi) * (py - yi) * pd
           ELSE (pn - xi * pd) * (yj - yi) > (xj - xi) * (py - yi) * pd

RayCrosses(poly, i, j, pxa, py) ==
    LET xi == poly[i][1]
        yi == poly[i][2]
        xj == poly[j][1]
        yj == poly[j][2]
        pn == pxa[1]
        pd == pxa[2]
    IN  /\ (yi > py) # (yj > py)
        /\ IF yj - yi > 0
           THEN (pn - xi * pd) * (yj - yi) < (xj - xi) * (py - yi) * pd
           ELSE (pn - xi * pd) * (yj - yi) > (xj - xi) * (py - yi) * pd

\* Step 2 of validate_point: the loop "for i in range(n)" with j trailing i,
\* started at j = n - 1; is_inside is toggled at every crossing.
RECURSIVE RayCast(_, _, _, _, _, _)
RayCast(poly, i, j, pxa, py, is_inside) ==
    IF i > Len(poly) THEN is_inside
    ELSE RayCast(poly, i + 1, i, pxa, py,
                 IF RayCrosses(poly, i, j, pxa, py) THEN ~is_inside ELSE is_inside)

IsInside(poly, pxa, py) == RayCast(poly, 1, Len(poly), pxa, py, FALSE)

RECURSIVE SeqMin(_), SeqMax(_)
SeqMin(s) == IF Len(s) = 1 THEN s[1]
             ELSE LET m == SeqMin(Tail(s)) IN IF s[1] < m THEN s[1] ELSE m
SeqMax(s) == IF Len(s) = 1 THEN s[1]
             ELSE LET m == SeqMax(Tail(s)) IN IF s[1] > m THEN s[1] ELSE m

\* The warning strings, as the template and the values formatted into it.
WarnNoEnvelope == [text |-> "No CG envelope defined for validation."]
WarnFore(arm, min_arm) == [text |-> "CG too far FORE", arm |-> arm, limit |-> min_arm]
WarnAft(arm, max_arm) == [text |-> "CG too far AFT", arm |-> arm, limit |-> max_arm]
WarnOverweight(weight, max_weight) ==
    [text |-> "Weight exceeds Envelope Maximum", weight |-> weight, limit |-> max_weight]
WarnUnderweight(weight, min_weight) ==
    [text |-> "Weight below Envelope Minimum", weight |-> weight, limit |-> min_weight]
WarnOutside(weight, arm, category) ==
    [text |-> "outside envelope limits", weight |-> weight, arm |-> arm, category |-> category]

\* if px < min_arm - epsilon: FORE  elif px > max_arm + epsilon: AFT
ArmWarnings(poly, arm, epsilon) ==
    LET arms == [i \in 1..Len(poly) |-> poly[i][1]]
        min_arm == SeqMin(arms)
        max_arm == SeqMax(arms)
    IN  IF GtEps(min_arm * arm[2] - arm[1], arm[2], epsilon) THEN <<WarnFore(arm, min_arm)>>
        ELSE IF GtEps(arm[1] - max_arm * arm[2], arm[2], epsilon) THEN <<WarnAft(arm, max_arm)>>
        ELSE <<>>

\* if py > max_weight + epsilon: exceeds  elif py < min_weight - epsilon: below
WeightWarnings(poly, weight, epsilon) ==
    LET weights == [i \in 1..Len(poly) |-> poly[i][2]]
        min_weight == SeqMin(weights)
        max_weight == SeqMax(weights)
    IN  IF GtEps(weight - max_weight, 1, epsilon) THEN <<WarnOverweight(weight, max_weight)>>
        ELSE IF GtEps(min_weight - weight, 1, epsilon) THEN <<WarnUnderweight(weight, min_weight)>>
        ELSE <<>>

\* if not warnings: the generic warning naming the category
GenericWarning_Always(warnings, weight, arm, category) ==
    <<WarnOutside(weight, arm, category)>>

GenericWarning(warnings, weight, arm, category) ==
    IF warnings = <<>> THEN <<WarnOutside(weight, arm, category)>> ELSE <<>>

\* The block "if not is_inside:" of validate_point: the arm check and the
\* weight check are two separate if/elif statements.
OutsideWarnings_ElifChain(poly, weight, arm, category, epsilon) ==
    LET a == ArmWarnings(poly, arm, epsilon)
        w == IF a # <<>> THEN a ELSE WeightWarnings(poly, weight, epsilon)
    IN  w \o GenericWarning(w, weight, arm, category)

OutsideWarnings(poly, weight, arm, category, epsilon) ==
    LET w == ArmWarnings(poly, arm, epsilon) \o WeightWarnings(poly, weight, epsilon)
    IN  w \o GenericWarning(w, weight, arm, category)

ValidationResult(within_limits, warnings) ==
    [within_limits |-> within_limits, warnings |-> warnings]

\* if not envelope or not envelope.polygon_points
NoEnvelope(envelope) == envelope = None \/ envelope.polygon_points = <<>>

NoEnvelopeResult_Silent == ValidationResult(TRUE, <<>>)

NoEnvelopeResult == ValidationResult(TRUE, <<WarnNoEnvelope>>)

ValidatePoint(weight, arm, envelope, epsilon) ==
    IF NoEnvelope(envelope) THEN NoEnvelopeResult
    ELSE LET poly == PolyOf(envelope.polygon_points)
         IN  IF OnBoundary(poly, arm, weight, epsilon) THEN ValidationResult(TRUE, <<>>)
             ELSE LET is_inside == IsInside(poly, arm, weight)
                  IN  ValidationResult(is_inside,
                          IF ~is_inside
                          THEN OutsideWarnings(poly, weight, arm, envelope.category, epsilon)
                          ELSE <<>>)

(***************************************************************************)
(* MassBalanceCore                                                         *)
(***************************************************************************)

\* _get_fuel_density, in hundredths of a kilogram per liter.
GetFuelDensity(fuel_type) ==
    CASE fuel_type = "AvGas 100LL" -> 72
      [] fuel_type = "AvGas UL91" -> 71
      [] fuel_type = "MoGas" -> 72
      [] fuel_type = "Jet A-1" -> 84
      [] fuel_type = "Diesel" -> 84
      [] OTHER -> 72

FuelMass_NoDensity(qty, density) == qty

\* Kilogram(qty * density); the quantities of the model make the product a
\* whole number of kilograms.
FuelMass(qty, density) == (qty * density) \div 100

\* dict.get(key, default) on a dictionary held as a function.
DictGet(d, key, default) == IF key \in DOMAIN d THEN d[key] ELSE default

\* {f.tank_name: f.fuel_l for f in fuel_inputs}: a later entry for the same
\* name replaces an earlier one.
FuelInputsDict(fuel_inputs) ==
    [name \in {fuel_inputs[i].tank_name : i \in 1..Len(fuel_inputs)} |->
        LET last == CHOOSE i \in 1..Len(fuel_inputs) :
                        /\ fuel_inputs[i].tank_name = name
                        /\ \A k \in (i + 1)..Len(fuel_inputs) : fuel_inputs[k].tank_name # name
        IN  fuel_inputs[last].fuel_l]

CurrentFuelLiters_LegacyFirst(ac, fuel_inputs, fuel_liters_legacy) ==
    IF fuel_liters_legacy # None /\ ac.fuel_tanks # <<>>
    THEN [name \in {ac.fuel_tanks[1].name} |-> fuel_liters_legacy.value]
    ELSE IF fuel_inputs # None /\ fuel_inputs.list # <<>>
    THEN FuelInputsDict(fuel_inputs.list)
    ELSE [name \in {} |-> 0]

\* Step 1 of calculate_moments: per-tank inputs when the list is given and
\* not empty, else the legacy total assigned to the first tank, if any.
CurrentFuelLiters(ac, fuel_inputs, fuel_liters_legacy) ==
    IF fuel_inputs # None /\ fuel_inputs.list # <<>>
    THEN FuelInputsDict(fuel_inputs.list)
    ELSE IF fuel_liters_legacy # None /\ ac.fuel_tanks # <<>>
    THEN [name \in {ac.fuel_tanks[1].name} |-> fuel_liters_legacy.value]
    ELSE [name \in {} |-> 0]

GetStationArm_DefaultOne(ac, name) ==
    IF \E i \in 1..Len(ac.weight_stations) : ac.weight_stations[i].name = name
    THEN LET first == CHOOSE i \in 1..Len(ac.weight_stations) :
                          ac.weight_stations[i].name = name
         IN  ac.weight_stations[first].arm_m
    ELSE 1

\* _get_station_arm: the arm of the first station of that name, else 0.
GetStationArm(ac, name) ==
    IF \E i \in 1..Len(ac.weight_stations) : ac.weight_stations[i].name = name
    THEN LET first == CHOOSE i \in 1..Len(ac.weight_stations) :
                          /\ ac.weight_stations[i].name = name
                          /\ \A k \in 1..(i - 1) : ac.weight_stations[k].name # name
         IN  ac.weight_stations[first].arm_m
    ELSE 0

RECURSIVE PayloadKg(_), PayloadMoment(_, _)
\* sum(w.weight_kg for w in weight_inputs)
PayloadKg(weight_inputs) ==
    IF weight_inputs = <<>> THEN 0
    ELSE weight_inputs[1].weight_kg + PayloadKg(Tail(weight_inputs))

\* sum(w.weight_kg * self._get_station_arm(w.station_name) for w in weight_inputs)
PayloadMoment(ac, weight_inputs) ==
    IF weight_inputs = <<>> THEN 0
    ELSE weight_inputs[1].weight_kg * GetStationArm(ac, weight_inputs[1].station_name)
         + PayloadMoment(ac, Tail(weight_inputs))

\* Meter(moment / weight if weight > 0 else 0)
ArmOf(moment, weight) == IF weight > 0 THEN Rat(moment, weight) ELSE <<0, 1>>

\* Step 3: the loop over self.aircraft.fuel_tanks that sums the takeoff fuel
\* mass and moment, from tank i on.
RECURSIVE TakeoffFuel(_, _, _, _, _)
TakeoffFuel(ac, fuel, i, mass_acc, moment_acc) ==
    IF i > Len(ac.fuel_tanks) THEN [mass |-> mass_acc, moment |-> moment_acc]
    ELSE LET tank == ac.fuel_tanks[i]
             qty == DictGet(fuel, tank.name, 0)
             mass == FuelMass(qty, GetFuelDensity(tank.fuel_type))
         IN  TakeoffFuel(ac, fuel, i + 1, mass_acc + mass, moment_acc + mass * tank.arm_m)

\* reversed(self.aircraft.fuel_tanks): the tank indices in the order the burn
\* loop visits them.
BurnOrder_Forward(n) == [k \in 1..n |-> k]

BurnOrder(n) == [k \in 1..n |-> n + 1 - k]

Min(a, b) == IF a <= b THEN a ELSE b

BurnFromTank_Unclamped(qty, remaining_burn) == remaining_burn

BurnFromTank_WholeTank(qty, remaining_burn) == qty

\* burn_from_this_tank = min(qty, remaining_burn)
BurnFromTank(qty, remaining_burn) == Min(qty, remaining_burn)

\* Step 4: the loop over the reversed tank list, at position k of the order,
\* carrying remaining_burn, the landing fuel mass and moment, and (for
\* inspection) each tank's landing_qty.
RECURSIVE BurnLoop(_, _, _, _, _)
BurnLoop(ac, fuel, order, k, st) ==
    IF k > Len(order) THEN st
    ELSE LET tank == ac.fuel_tanks[order[k]]
             qty == DictGet(fuel, tank.name, 0)
             burn_from_this_tank == BurnFromTank(qty, st.remaining_burn)
             landing_qty == qty - burn_from_this_tank
             mass == FuelMass(landing_qty, GetFuelDensity(tank.fuel_type))
         IN  BurnLoop(ac, fuel, order, k + 1,
                      [remaining_burn |-> st.remaining_burn - burn_from_this_tank,
                       mass |-> st.mass + mass,
                       moment |-> st.moment + mass * tank.arm_m,
                       landing_qty |-> [st.landing_qty EXCEPT ![order[k]] = landing_qty]])

\* calculate_moments
CalculateMoments(ac, weight_inputs, fuel_inputs, fuel_liters_legacy, trip_fuel_liters) ==
    LET current_fuel_liters == CurrentFuelLiters(ac, fuel_inputs, fuel_liters_legacy)
        payload_kg == PayloadKg(weight_inputs)
        payload_moment == PayloadMoment(ac, weight_inputs)
        zero_fuel_weight == ac.empty_weight_kg + payload_kg
        zero_fuel_moment == ac.empty_weight_kg * ac.empty_arm_m + payload_moment
        takeoff == TakeoffFuel(ac, current_fuel_liters, 1, 0, 0)
        takeoff_weight == zero_fuel_weight + takeoff.mass
        takeoff_moment == zero_fuel_moment + takeoff.moment
        n == Len(ac.fuel_tanks)
        landing == BurnLoop(ac, current_fuel_liters, BurnOrder(n), 1,
                            [remaining_burn |-> trip_fuel_liters, mass |-> 0, moment |-> 0,
                             landing_qty |-> [i \in 1..n |-> 0]])
        landing_weight == zero_fuel_weight + landing.mass
        landing_moment == zero_fuel_moment + landing.moment
    IN  [payload_kg |-> payload_kg,
         fuel_weight_kg |-> takeoff.mass,
         zero_fuel |-> <<zero_fuel_weight, ArmOf(zero_fuel_moment, zero_fuel_weight),
                         zero_fuel_moment>>,
         takeoff |-> <<takeoff_weight, ArmOf(takeoff_moment, takeoff_weight), takeoff_moment>>,
         landing |-> <<landing_weight, ArmOf(landing_moment, landing_weight), landing_moment>>,
         \* locals, kept for inspection
         loaded_qty |-> [i \in 1..n |-> DictGet(current_fuel_liters, ac.fuel_tanks[i].name, 0)],
         landing_qty |-> landing.landing_qty]

\* next((e for e in self.aircraft.cg_envelopes if e.category == "normal"), None)
NormalEnvelope(ac) ==
    IF \E i \in 1..Len(ac.cg_envelopes) : ac.cg_envelopes[i].category = "normal"
    THEN LET first == CHOOSE i \in 1..Len(ac.cg_envelopes) :
                          /\ ac.cg_envelopes[i].category = "normal"
                          /\ \A k \in 1..(i - 1) : ac.cg_envelopes[k].category # "normal"
         IN  ac.cg_envelopes[first]
    ELSE None

\* validate_phases: each phase's (weight, arm) against the normal envelope,
\* with validate_point's default epsilon.
ValidatePhases(ac, phases) ==
    LET envelope == NormalEnvelope(ac)
    IN  [zero_fuel |-> ValidatePoint(phases.zero_fuel[1], phases.zero_fuel[2], envelope,
                                     DefaultEpsilon),
         takeoff |-> ValidatePoint(phases.takeoff[1], phases.takeoff[2], envelope,
                                   DefaultEpsilon),
         landing |-> ValidatePoint(phases.landing[1], phases.landing[2], envelope,
                                   DefaultEpsilon),
         envelope |-> envelope]

(***************************************************************************)
(* MassBalanceLogic                                                        *)
(***************************************************************************)
WarnMigration ==
    [text |-> "CRITICAL: CG shifts OUT OF LIMITS during flight (Landing state unsafe)."]
WarnMtow(takeoff_weight, mtow_kg) ==
    [text |-> "Takeoff weight exceeds MTOW", weight |-> takeoff_weight, limit |-> mtow_kg]

\* warnings.extend(res.warnings if not res.within_limits else [])
PhaseWarnings_Always(res) == res.warnings

PhaseWarnings_Never(res) == <<>>

PhaseWarnings(res) == IF ~res.within_limits THEN res.warnings ELSE <<>>

\* if to_in_limits and not ldg_in_limits: the H-05 migration warning
MigrationWarnings_LandingOnly(to_in_limits, ldg_in_limits) ==
    IF ~ldg_in_limits THEN <<WarnMigration>> ELSE <<>>

MigrationWarnings(to_in_limits, ldg_in_limits) ==
    IF to_in_limits /\ ~ldg_in_limits THEN <<WarnMigration>> ELSE <<>>

\* if takeoff_weight > self.aircraft.mtow_kg
MtowWarnings_AtLimit(takeoff_weight, mtow_kg) ==
    IF takeoff_weight >= mtow_kg THEN <<WarnMtow(takeoff_weight, mtow_kg)>> ELSE <<>>

MtowWarnings(takeoff_weight, mtow_kg) ==
    IF takeoff_weight > mtow_kg THEN <<WarnMtow(takeoff_weight, mtow_kg)>> ELSE <<>>

\* construct_warnings
ConstructWarnings(ac, validation_results, takeoff_weight) ==
    PhaseWarnings(validation_results.takeoff)
    \o PhaseWarnings(validation_results.landing)
    \o PhaseWarnings(validation_results.zero_fuel)
    \o MigrationWarnings(validation_results.takeoff.within_limits,
                         validation_results.landing.within_limits)
    \o MtowWarnings(takeoff_weight, ac.mtow_kg)

\* generate_chart: the PNG of the rendering collaborator, or None when any
\* step of the rendering raises.
GenerateChart(rendering_fails) == IF rendering_fails THEN None ELSE [base64 |-> "png"]

(***************************************************************************)
(* MassBalanceService                                                      *)
(***************************************************************************)
CGPoint(label, phase, res) ==
    [label |-> label, weight_kg |-> phase[1], arm_m |-> phase[2], moment_kg_m |-> phase[3],
     within_limits |-> res.within_limits]

\* within_weight_limits = (takeoff_weight_kg <= self.aircraft.mtow_kg)
WithinWeightLimits(takeoff_weight_kg, mtow_kg) == takeoff_weight_kg <= mtow_kg

MassBalanceResponse_ChartRequired(ac, results, validation, chart_base64) ==
    [empty_weight_kg |-> ac.empty_weight_kg,
     payload_kg |-> results.payload_kg,
     fuel_weight_kg |-> results.fuel_weight_kg,
     takeoff_weight_kg |-> results.takeoff[1],
     landing_weight_kg |-> results.landing[1],
     zero_fuel_weight_kg |-> results.zero_fuel[1],
     cg_points |-> <<CGPoint("Zero Fuel", results.zero_fuel, validation.zero_fuel),
                     CGPoint("Takeoff", results.takeoff, validation.takeoff),
                     CGPoint("Landing", results.landing, validation.landing)>>,
     within_weight_limits |-> WithinWeightLimits(results.takeoff[1], ac.mtow_kg),
     within_cg_limits |-> validation.takeoff.within_limits /\ validation.landing.within_limits,
     warnings |-> IF chart_base64 = None THEN <<>>
                  ELSE ConstructWarnings(ac, validation, results.takeoff[1]),
     chart_image_base64 |-> chart_base64]

\* MassBalanceService.calculate, from the results of the core on.
MassBalanceResponse(ac, results, validation, chart_base64) ==
    [empty_weight_kg |-> ac.empty_weight_kg,
     payload_kg |-> results.payload_kg,
     fuel_weight_kg |-> results.fuel_weight_kg,
     takeoff_weight_kg |-> results.takeoff[1],
     landing_weight_kg |-> results.landing[1],
     zero_fuel_weight_kg |-> results.zero_fuel[1],
     cg_points |-> <<CGPoint("Zero Fuel", results.zero_fuel, validation.zero_fuel),
                     CGPoint("Takeoff", results.takeoff, validation.takeoff),
                     CGPoint("Landing", results.landing, validation.landing)>>,
     within_weight_limits |-> WithinWeightLimits(results.takeoff[1], ac.mtow_kg),
     within_cg_limits |-> validation.takeoff.within_limits /\ validation.landing.within_limits,
     warnings |-> ConstructWarnings(ac, validation, results.takeoff[1]),
     chart_image_base64 |-> chart_base64]

(***************************************************************************)
(* Inputs of validate_point.                                               *)
(***************************************************************************)
Vertices == {[weight_kg |-> w, arm_m |-> a] : a \in 1..GridArm, w \in 1..GridWeight}

\* Vertex lists of 3 or 4 points.  Every list of 3 grid vertices is a polygon
\* of the model: it may repeat a vertex or be collinear.  A list of 4 has
\* distinct vertices and starts at its least vertex; it may cross itself.
VertexBefore(a, b) == a.arm_m < b.arm_m \/ (a.arm_m = b.arm_m /\ a.weight_kg < b.weight_kg)

PolygonPoints ==
    [1..3 -> Vertices]
    \cup {p \in [1..4 -> Vertices] :
            /\ \A i \in 1..4 : \A k \in 1..4 : i < k => p[i] # p[k]
            /\ \A i \in 2..4 : VertexBefore(p[1], p[i])}

Envelopes ==
    {None, [category |-> "normal", polygon_points |-> <<>>]}
    \cup {[category |-> "normal", polygon_points |-> p] : p \in PolygonPoints}
    \cup {[category |-> "utility", polygon_points |-> p] : p \in [1..3 -> Vertices]}

\* Points around and on the grid; arms in steps of one half.
PointArms == {Rat(k, 2) : k \in 0..(2 * (GridArm + 1))}
PointWeights == 0..(GridWeight + 1)

Epsilons == {DefaultEpsilon, <<1, 2>>}

CGCalls ==
    [weight : PointWeights, arm : PointArms, envelope : Envelopes, epsilon : Epsilons]

Pending == [returned |-> FALSE]
Idle == [called |-> FALSE]

(***************************************************************************)
(* Aircraft snapshots and requests of the mass and balance service.        *)
(* Weights are in kilograms, fuel in liters, arms in meters.               *)
(***************************************************************************)
Tank(name, arm_m, fuel_type) == [name |-> name, arm_m |-> arm_m, fuel_type |-> fuel_type]
Station(name, arm_m) == [name |-> name, arm_m |-> arm_m]
Point(weight_kg, arm_m) == [weight_kg |-> weight_kg, arm_m |-> arm_m]

\* Fore limit moving aft as weight increases, as in the AFM example of
\* tests/unit/test_cg_validation.py.
SlopedEnvelope(category) ==
    [category |-> category,
     polygon_points |-> <<Point(20, 1), Point(90, 2), Point(90, 3), Point(20, 3)>>]

BoxEnvelope(category) ==
    [category |-> category,
     polygon_points |-> <<Point(30, 2), Point(70, 2), Point(70, 4), Point(30, 4)>>]

Fleet ==
    { \* two tanks, forward and aft, and a normal-category envelope
      [registration |-> "D-EBPF", empty_weight_kg |-> 20, empty_arm_m |-> 2, mtow_kg |-> 76,
       fuel_tanks |-> <<Tank("Main", 1, "AvGas 100LL"), Tank("Aux", 4, "MoGas")>>,
       weight_stations |-> <<Station("Pilot", 2), Station("Baggage", 4)>>,
       cg_envelopes |-> <<SlopedEnvelope("normal")>>],
      \* three tanks of different fuel types and no envelope at all
      [registration |-> "D-ENOE", empty_weight_kg |-> 20, empty_arm_m |-> 2, mtow_kg |-> 80,
       fuel_tanks |-> <<Tank("Main", 2, "AvGas 100LL"), Tank("Aux", 3, "Jet A-1"),
                        Tank("Tip", 4, "Diesel")>>,
       weight_stations |-> <<Station("Pilot", 2), Station("Baggage", 4)>>,
       cg_envelopes |-> <<>>],
      \* only a utility-category envelope
      [registration |-> "D-EUTI", empty_weight_kg |-> 20, empty_arm_m |-> 2, mtow_kg |-> 60,
       fuel_tanks |-> <<Tank("Main", 3, "AvGas 100LL")>>,
       weight_stations |-> <<Station("Pilot", 2), Station("Baggage", 4)>>,
       cg_envelopes |-> <<BoxEnvelope("utility")>>],
      \* a normal-category envelope without points, and no tanks
      [registration |-> "D-EMPT", empty_weight_kg |-> 20, empty_arm_m |-> 2, mtow_kg |-> 40,
       fuel_tanks |-> <<>>,
       weight_stations |-> <<Station("Pilot", 2)>>,
       cg_envelopes |-> <<[category |-> "normal", polygon_points |-> <<>>]>>],
      \* a utility envelope listed before the normal one
      [registration |-> "D-ETWO", empty_weight_kg |-> 30, empty_arm_m |-> 3, mtow_kg |-> 66,
       fuel_tanks |-> <<Tank("Aux", 4, "MoGas"), Tank("Main", 1, "AvGas 100LL")>>,
       weight_stations |-> <<Station("Baggage", 4), Station("Pilot", 2)>>,
       cg_envelopes |-> <<SlopedEnvelope("utility"), BoxEnvelope("normal")>>] }

SeqsUpTo(S, n) == UNION {[1..k -> S] : k \in 0..n}

\* WeightInput(station_name, weight_kg); "Ghost" is a station no aircraft has.
WeightInputOptions ==
    {[station_name |-> "Pilot", weight_kg |-> 10],
     [station_name |-> "Baggage", weight_kg |-> 20],
     [station_name |-> "Ghost", weight_kg |-> 10]}

\* FuelInput(tank_name, fuel_l); only one aircraft of the fleet has a "Tip" tank.
FuelInputOptions ==
    {[tank_name |-> "Main", fuel_l |-> 25],
     [tank_name |-> "Main", fuel_l |-> 50],
     [tank_name |-> "Aux", fuel_l |-> 25],
     [tank_name |-> "Aux", fuel_l |-> 50],
     [tank_name |-> "Tip", fuel_l |-> 25]}

TripFuelOptions == {0, 25, 50, 75, 100}

\* The arguments of MassBalanceService.calculate.
MBRequests ==
    [weight_inputs : SeqsUpTo(WeightInputOptions, MaxWeightInputs),
     fuel_inputs : {None} \cup {[list |-> l] : l \in SeqsUpTo(FuelInputOptions, MaxFuelInputs)},
     fuel_liters_legacy : {None, [value |-> 50]},
     trip_fuel_liters : TripFuelOptions]

\* An aircraft after the fixture of tests/unit/test_mass_balance.py: empty 750 kg at
\* 2.40 m, MTOW 1150 kg, one AvGas tank at 2.45 m, station "Pilot" at 2.35 m.
\* Its landing weight is not a whole number of kilograms, so this aircraft and
\* its requests are written in tenths of a kilogram, tenths of a liter and
\* centimeters; calculate_moments is homogeneous in these units.
ExampleAircraft ==
    [registration |-> "D-TEST", empty_weight_kg |-> 7500, empty_arm_m |-> 240,
     mtow_kg |-> 11500,
     fuel_tanks |-> <<Tank("Main", 245, "AvGas 100LL")>>,
     weight_stations |-> <<Station("Pilot", 235)>>,
     cg_envelopes |-> <<>>]

\* 80 kg pilot, 100 L of fuel given per tank or as the legacy total, 30 L or no
\* trip fuel.
ExampleRequests ==
    [weight_inputs : {<<[station_name |-> "Pilot", weight_kg |-> 800]>>},
     fuel_inputs : {None, [list |-> <<[tank_name |-> "Main", fuel_l |-> 1000]>>]},
     fuel_liters_legacy : {None, [value |-> 1000]},
     trip_fuel_liters : {0, 300}]

(***************************************************************************)
(* Specification of validate_point as a function of its arguments.         *)
(***************************************************************************)
InitCG ==
    /\ cg_call \in CGCalls
    /\ cg_result = Pending
    /\ aircraft = None
    /\ mb_request = Idle
    /\ mb_locals = Idle
    /\ mb_response = Pending
    /\ perf_request = Idle
    /\ perf_locals = Idle
    /\ perf_response = Pending

validate_point ==
    /\ cg_result = Pending
    /\ cg_call \in CGCalls
    /\ cg_result' = [returned |-> TRUE,
                     result |-> ValidatePoint(cg_call.weight, cg_call.arm,
                                              cg_call.envelope, cg_call.epsilon)]
    /\ UNCHANGED <<cg_call, aircraft, mb_request, mb_locals, mb_response,
                   perf_request, perf_locals, perf_response>>

NextCG == validate_point

SpecCG == InitCG /\ [][NextCG]_vars

(***************************************************************************)
(* Specification of one mass and balance calculation on an aircraft.       *)
(***************************************************************************)
InitMB ==
    /\ \/ aircraft \in Fleet /\ mb_request \in MBRequests
       \/ aircraft = ExampleAircraft /\ mb_request \in ExampleRequests
    /\ mb_locals = Idle
    /\ mb_response = Pending
    /\ cg_call = Idle
    /\ cg_result = Pending
    /\ perf_request = Idle
    /\ perf_locals = Idle
    /\ perf_response = Pending

\* MassBalanceService.calculate: the core's moments, the validation of the
\* three phases, the warnings, the chart (whose rendering may fail) and the
\* response.
calculate ==
    /\ mb_response = Pending
    /\ mb_request \in MBRequests \cup ExampleRequests
    /\ LET results == CalculateMoments(aircraft, mb_request.weight_inputs,
                                       mb_request.fuel_inputs,
                                       mb_request.fuel_liters_legacy,
                                       mb_request.trip_fuel_liters)
           validation == ValidatePhases(aircraft, results)
       IN  /\ mb_locals' = [called |-> TRUE,
                            loaded_qty |-> results.loaded_qty,
                            landing_qty |-> results.landing_qty,
                            validation |-> validation]
           /\ \E rendering_fails \in BOOLEAN :
                 mb_response' = [returned |-> TRUE,
                                 response |-> MassBalanceResponse(
                                                  aircraft, results, validation,
                                                  GenerateChart(rendering_fails))]
    /\ UNCHANGED <<aircraft, mb_request, cg_call, cg_result,
                   perf_request, perf_locals, perf_response>>

NextMB == calculate

SpecMB == InitMB /\ [][NextMB]_vars

(***************************************************************************)
(* Exact arithmetic on rationals <<n, d>>, d > 0, standing in for the      *)
(* floats of the performance service.                                      *)
(***************************************************************************)
RInt(n) == <<n, 1>>

\* a * b, cancelling across before multiplying.
RMul(a, b) ==
    LET g1 == GCD(Abs(a[1]), b[2])
        g2 == GCD(Abs(b[1]), a[2])
    IN  IF a[1] = 0 \/ b[1] = 0 THEN <<0, 1>>
        ELSE <<(a[1] \div g1) * (b[1] \div g2), (a[2] \div g2) * (b[2] \div g1)>>

RAdd(a, b) == Rat(a[1] * b[2] + b[1] * a[2], a[2] * b[2])
RSub(a, b) == RAdd(a, <<-b[1], b[2]>>)
RLeq(a, b) == a[1] * b[2] <= b[1] * a[2]

(***************************************************************************)
(* PerformanceCore                                                         *)
(***************************************************************************)
ISA_TEMP_SEA_LEVEL_C == 15
ISA_LAPSE_RATE_C_PER_1000FT == <<1983, 1000>>
DA_FACTOR_PER_DEGREE == <<594, 5>>

\* calculate_density_altitude
CalculateDensityAltitude(press_alt, temp) ==
    LET isa_temp == RSub(RInt(ISA_TEMP_SEA_LEVEL_C),
                         RMul(Rat(press_alt, 1000), ISA_LAPSE_RATE_C_PER_1000FT))
        dev == RSub(RInt(temp), isa_temp)
    IN  RAdd(RInt(press_alt), RMul(dev, DA_FACTOR_PER_DEGREE))

\* A Python dict is a function from its keys; {} is the function without keys.
EmptyDict == [k \in {} |-> 0]
HasKey(d, key) == key \in DOMAIN d

\* JSON values of a table entry: a number or a text.
Num(n) == [num |-> n]
Str(t) == [str |-> t]

\* interpolate_n: float(table.get("base", 0)); the interpolation arguments are
\* not read.  float() of a text that is no number raises ValueError.
InterpolateN(table) ==
    LET v == IF HasKey(table, "base") THEN table["base"] ELSE Num(0)
    IN  IF HasKey(v, "num") THEN [value |-> RInt(v.num)] ELSE [raises |-> "ValueError"]

\* The try block of _calculate_phase: both lookups, or the exception raised.
ModeALookup(data_tables) ==
    IF ~HasKey(data_tables, "ground_roll") THEN [raises |-> "KeyError"]
    ELSE LET roll == InterpolateN(data_tables["ground_roll"])
         IN  IF HasKey(roll, "raises") THEN roll
             ELSE IF ~HasKey(data_tables, "total_dist_50ft") THEN [raises |-> "KeyError"]
             ELSE LET total == InterpolateN(data_tables["total_dist_50ft"])
                  IN  IF HasKey(total, "raises") THEN total
                      ELSE [raw_roll |-> roll.value, raw_total |-> total.value]

\* The square root of a perfect square.
ISqrt(n) == CHOOSE k \in 0..n : k * k = n

\* (weight / mtow) ** 2 and (weight / mtow) ** 1.5; the weights of the model
\* make the ratio the square of a rational.
RatioSquared(weight, mtow_kg) ==
    LET r == Rat(weight, mtow_kg) IN <<r[1] * r[1], r[2] * r[2]>>
RatioPow15(weight, mtow_kg) ==
    LET r == Rat(weight, mtow_kg)
        p == ISqrt(r[1])
        q == ISqrt(r[2])
    IN  <<p * p * p, q * q * q>>

CalculateModeBBase_Linear(weight, mtow_kg, phase) ==
    IF phase = "takeoff"
    THEN LET raw_roll == RMul(RInt(300), Rat(weight, mtow_kg))
         IN  [raw_roll |-> raw_roll, raw_total |-> RMul(raw_roll, <<3, 2>>)]
    ELSE LET raw_roll == RMul(RInt(250), Rat(weight, mtow_kg))
         IN  [raw_roll |-> raw_roll, raw_total |-> RMul(raw_roll, <<8, 5>>)]

\* calculate_mode_b_base
CalculateModeBBase(weight, mtow_kg, phase) ==
    IF phase = "takeoff"
    THEN LET raw_roll == RMul(RInt(300), RatioSquared(weight, mtow_kg))
         IN  [raw_roll |-> raw_roll, raw_total |-> RMul(raw_roll, <<3, 2>>)]
    ELSE LET raw_roll == RMul(RInt(250), RatioPow15(weight, mtow_kg))
         IN  [raw_roll |-> raw_roll, raw_total |-> RMul(raw_roll, <<8, 5>>)]

(***************************************************************************)
(* PerformanceLogic                                                        *)
(***************************************************************************)
\* f"{factor:.2f}": the factor in hundredths, rounded.
Fmt2(factor) == (200 * factor[1] + factor[2]) \div (2 * factor[2])

AltFactor_Signed(dens_alt) == RAdd(RInt(1), RMul(RMul(dens_alt, <<1, 1000>>), <<1, 10>>))

\* alt_factor = 1.0 + (max(0, float(dens_alt)) / 1000 * 0.10)
AltFactor(dens_alt) ==
    LET da == IF dens_alt[1] < 0 THEN <<0, 1>> ELSE dens_alt
    IN  RAdd(RInt(1), RMul(RMul(da, <<1, 1000>>), <<1, 10>>))

WindFactor_HeadwindBonus(wind) ==
    IF wind < 0 THEN RSub(RInt(1), RMul(Rat(Abs(wind), 2), <<1, 10>>))
    ELSE RAdd(RInt(1), RMul(Rat(wind, 2), <<1, 10>>))

\* wind < 0: 1.0 - (abs(wind) / 2 * 0.015); else 1.0 + (wind / 2 * 0.10)
WindFactor(wind) ==
    IF wind < 0 THEN RSub(RInt(1), RMul(Rat(Abs(wind), 2), <<3, 200>>))
    ELSE RAdd(RInt(1), RMul(Rat(wind, 2), <<1, 10>>))

WindCorrection(wind) ==
    [text |-> IF wind < 0 THEN "Wind (-)" ELSE "Wind (+)", factor |-> Fmt2(WindFactor(wind))]

\* grass 1.20, wet 1.15, any other surface no factor
SurfaceFactor(surface) ==
    CASE surface = "grass" -> <<6, 5>>
      [] surface = "wet" -> <<23, 20>>
      [] OTHER -> <<1, 1>>

SurfaceCorrections(surface) ==
    CASE surface = "grass" -> <<[text |-> "Grass Surface", factor |-> 120]>>
      [] surface = "wet" -> <<[text |-> "Wet Surface", factor |-> 115]>>
      [] OTHER -> <<>>

SlopeFactor_NoDirection(slope, phase) ==
    IF slope # 0 THEN RAdd(RInt(1), Rat(slope, 20)) ELSE <<1, 1>>

\* factor = 1.0 + (slope * 0.05 * slope_dir), applied when slope != 0
SlopeFactor(slope, phase) ==
    LET slope_dir == IF phase = "takeoff" THEN 1 ELSE -1
    IN  IF slope # 0 THEN RAdd(RInt(1), Rat(slope * slope_dir, 20)) ELSE <<1, 1>>

SlopeCorrections(slope, phase) ==
    IF slope # 0
    THEN <<[text |-> "Slope", slope |-> slope, factor |-> Fmt2(SlopeFactor(slope, phase))]>>
    ELSE <<>>

SafetyFactor_Uniform(phase) == <<5, 4>>

\* safety_factor = 1.33 if phase == "landing" else 1.25
SafetyFactor(phase) == IF phase = "landing" THEN <<133, 100>> ELSE <<5, 4>>

\* apply_corrections
ApplyCorrections(raw_roll, raw_total, params, is_mode_b) ==
    LET alt_factor == IF is_mode_b THEN AltFactor(params.dens_alt) ELSE <<1, 1>>
        roll == RMul(raw_roll, alt_factor)
        total == RMul(raw_total, alt_factor)
        phys_factor == RMul(RMul(WindFactor(params.wind), SurfaceFactor(params.surface)),
                            SlopeFactor(params.slope, params.phase))
        safety_factor == SafetyFactor(params.phase)
        raw_roll_factored == RMul(roll, phys_factor)
        raw_total_factored == RMul(total, phys_factor)
    IN  [roll_final |-> RMul(raw_roll_factored, safety_factor),
         total_final |-> RMul(raw_total_factored, safety_factor),
         roll_raw |-> raw_roll_factored,
         total_raw |-> raw_total_factored,
         corrections |->
             (IF is_mode_b
              THEN <<[text |-> "Mode B Density Alt Corr", factor |-> Fmt2(alt_factor)]>>
              ELSE <<>>)
             \o <<WindCorrection(params.wind)>>
             \o SurfaceCorrections(params.surface)
             \o SlopeCorrections(params.slope, params.phase)
             \o <<[text |-> "Safety Factor", phase |-> params.phase,
                   factor |-> Fmt2(safety_factor)]>>,
         safety_factor |-> safety_factor]

\* generate_Global_warnings
WarnTailwind(wind) == [text |-> "Tailwind increases takeoff/landing distances", wind |-> wind]
GenerateGlobalWarnings_NonNegative(wind) ==
    IF wind >= 0 THEN <<WarnTailwind(wind)>> ELSE <<>>

GenerateGlobalWarnings(wind) == IF wind > 0 THEN <<WarnTailwind(wind)>> ELSE <<>>

(***************************************************************************)
(* PerformanceService                                                      *)
(***************************************************************************)
WarnModeAIncomplete(phase) == [text |-> "Mode A data incomplete", phase |-> phase]

\* _get_profile: the first profile of that type, else None.
GetProfile(ac, profile_type) ==
    IF \E i \in 1..Len(ac.performance_profiles) :
           ac.performance_profiles[i].profile_type = profile_type
    THEN LET first == CHOOSE i \in 1..Len(ac.performance_profiles) :
                          /\ ac.performance_profiles[i].profile_type = profile_type
                          /\ \A k \in 1..(i - 1) :
                                ac.performance_profiles[k].profile_type # profile_type
         IN  ac.performance_profiles[first]
    ELSE None

\* if profile and profile.data_tables
HasDataTables(profile) ==
    /\ profile # None
    /\ profile.data_tables # None
    /\ DOMAIN profile.data_tables # {}

\* Mode A was attempted and both lookups returned.
ModeASucceeds(profile) ==
    HasDataTables(profile) /\ ~HasKey(ModeALookup(profile.data_tables), "raises")

\* _calculate_phase: the phase's result and the warnings it appended.
\* base_roll and base_total are raw_roll and raw_total before apply_corrections.
CalculatePhase(ac, phase, profile, weight, dens_alt, wind, surface, slope) ==
    LET mode_a == ModeASucceeds(profile)
        source == IF mode_a THEN "mode_a_poh" ELSE "mode_b_fsm375"
        base == IF mode_a THEN ModeALookup(profile.data_tables)
                ELSE CalculateModeBBase(weight, ac.mtow_kg, phase)
        c == ApplyCorrections(base.raw_roll, base.raw_total,
                              [wind |-> wind, surface |-> surface, slope |-> slope,
                               phase |-> phase, dens_alt |-> dens_alt],
                              source = "mode_b_fsm375")
    IN  [ground_roll |-> c.roll_final,
         total_dist |-> c.total_final,
         ground_roll_raw |-> c.roll_raw,
         total_dist_raw |-> c.total_raw,
         source |-> source,
         corrections |-> c.corrections,
         base_roll |-> base.raw_roll,
         base_total |-> base.raw_total,
         warnings |-> IF HasDataTables(profile) /\ ~mode_a
                      THEN <<WarnModeAIncomplete(phase)>> ELSE <<>>]

\* The elements of a sequence, and the lists list(set(...)) can return.
Elements(seq) == {seq[i] : i \in 1..Len(seq)}
ListsOfSet(S) ==
    {l \in [1..Cardinality(S) -> S] : \A x \in S : \E i \in 1..Cardinality(S) : l[i] = x}

\* The locals of PerformanceService.calculate before the response is built.
PerformancePhases(ac, req) ==
    LET density_alt == CalculateDensityAltitude(req.pressure_altitude_ft, req.temperature_c)
    IN  [density_alt |-> density_alt,
         takeoff |-> CalculatePhase(ac, "takeoff", GetProfile(ac, "takeoff"), req.weight_kg,
                                    density_alt, req.wind_component_kt,
                                    req.runway_condition, req.runway_slope_percent),
         landing |-> CalculatePhase(ac, "landing", GetProfile(ac, "landing"), req.weight_kg,
                                    density_alt, req.wind_component_kt,
                                    req.runway_condition, req.runway_slope_percent)]

\* The warnings list before list(set(warnings)).
PerformanceWarnings(phases, wind) ==
    phases.takeoff.warnings \o phases.landing.warnings \o GenerateGlobalWarnings(wind)

PerformanceResponse(phases, warnings) ==
    [density_altitude_ft |-> phases.density_alt,
     takeoff_ground_roll_m |-> phases.takeoff.ground_roll,
     takeoff_distance_50ft_m |-> phases.takeoff.total_dist,
     takeoff_ground_roll_raw_m |-> phases.takeoff.ground_roll_raw,
     takeoff_distance_50ft_raw_m |-> phases.takeoff.total_dist_raw,
     landing_ground_roll_m |-> phases.landing.ground_roll,
     landing_distance_50ft_m |-> phases.landing.total_dist,
     landing_ground_roll_raw_m |-> phases.landing.ground_roll_raw,
     landing_distance_50ft_raw_m |-> phases.landing.total_dist_raw,
     calculation_source |-> phases.takeoff.source,
     corrections_applied |-> phases.takeoff.corrections \o phases.landing.corrections,
     warnings |-> warnings]

(***************************************************************************)
(* Aircraft and requests of the performance service.                       *)
(***************************************************************************)
Profile(profile_type, data_tables) ==
    [profile_type |-> profile_type, data_tables |-> data_tables]

\* data_tables of a profile: none, {}, the table of the fallback test
\* ({"ground_roll": {}}), complete tables, tables without a value, a table
\* whose value is no number, and tables that cover weights up to 1000 kg only.
DataTables ==
    {None,
     EmptyDict,
     [ground_roll |-> EmptyDict],
     [ground_roll |-> [base |-> Num(400)], total_dist_50ft |-> [base |-> Num(600)]],
     [ground_roll |-> EmptyDict, total_dist_50ft |-> EmptyDict],
     [ground_roll |-> [base |-> Num(400)], total_dist_50ft |-> [base |-> Str("n/a")]],
     [ground_roll |-> [base |-> Num(400), weight_kg |-> <<600, 1000>>],
      total_dist_50ft |-> [base |-> Num(600), weight_kg |-> <<600, 1000>>]]}

\* The profile lists: no profile of a type, or one with any of the tables.
ProfileLists ==
    {t \o l : t \in {<<>>} \cup {<<Profile("takeoff", d)>> : d \in DataTables},
              l \in {<<>>} \cup {<<Profile("landing", d)>> : d \in DataTables}}

PerfFleet ==
    {[registration |-> "D-EPRF", mtow_kg |-> 1200, performance_profiles |-> pl] :
        pl \in ProfileLists}

\* Weights whose ratio to MTOW is 1/4, 16/25 and 1; ISA sea level, colder and
\* hotter; headwinds (one beyond 133 kt, which the schema does not bound),
\* calm and tailwinds.
PerfRequests ==
    [weight_kg : {300, 768, 1200},
     pressure_altitude_ft : {0},
     temperature_c : {-10, 15, 40},
     wind_component_kt : {-140, -20, 0, 2, 5},
     runway_condition : {"dry", "wet", "grass"},
     runway_slope_percent : {-2, 0, 2}]

(***************************************************************************)
(* Specification of one performance calculation on an aircraft.            *)
(***************************************************************************)
InitPerf ==
    /\ aircraft \in PerfFleet
    /\ perf_request \in PerfRequests
    /\ perf_locals = Idle
    /\ perf_response = Pending
    /\ cg_call = Idle
    /\ cg_result = Pending
    /\ mb_request = Idle
    /\ mb_locals = Idle
    /\ mb_response = Pending

\* PerformanceService.calculate: density altitude, the two phases, the global
\* warnings and the response; list(set(warnings)) returns the distinct
\* warnings in an order of its own.
calculate_performance ==
    /\ perf_response = Pending
    /\ perf_request \in PerfRequests
    /\ LET phases == PerformancePhases(aircraft, perf_request)
           warnings == PerformanceWarnings(phases, perf_request.wind_component_kt)
       IN  /\ perf_locals' = [called |-> TRUE, phases |-> phases]
           /\ \E listed \in ListsOfSet(Elements(warnings)) :
                 perf_response' = [returned |-> TRUE,
                                   response |-> PerformanceResponse(phases, listed)]
    /\ UNCHANGED <<aircraft, perf_request, cg_call, cg_result,
                   mb_request, mb_locals, mb_response>>

NextPerf == calculate_performance

SpecPerf == InitPerf /\ [][NextPerf]_vars

(***************************************************************************)
(* Concurrent calculations on one aircraft: a mass and balance calculation *)
(* and a performance calculation of two callers that share the aircraft    *)
(* object, each with locals of its own, their steps interleaved in any     *)
(* order.                                                                  *)
(***************************************************************************)
FuelTanksAfterBurnLoop_ReversedInPlace(fuel_tanks) ==
    [k \in 1..Len(fuel_tanks) |-> fuel_tanks[Len(fuel_tanks) + 1 - k]]

\* for tank in reversed(self.aircraft.fuel_tanks): reversed() hands out an
\* iterator; the list of the aircraft is left as it is.
FuelTanksAfterBurnLoop(fuel_tanks) == fuel_tanks

\* An aircraft of the fleet with its performance profiles.
WithProfiles(ac, profiles) ==
    [registration |-> ac.registration, empty_weight_kg |-> ac.empty_weight_kg,
     empty_arm_m |-> ac.empty_arm_m, mtow_kg |-> ac.mtow_kg,
     fuel_tanks |-> ac.fuel_tanks, weight_stations |-> ac.weight_stations,
     cg_envelopes |-> ac.cg_envelopes, performance_profiles |-> profiles]

\* No profile, a takeoff table only, and a takeoff table that lacks a key
\* before a complete landing table.
ConcProfileLists ==
    {<<>>,
     <<Profile("takeoff", [ground_roll |-> [base |-> Num(400)],
                           total_dist_50ft |-> [base |-> Num(600)]])>>,
     <<Profile("takeoff", [ground_roll |-> EmptyDict]),
       Profile("landing", [ground_roll |-> [base |-> Num(400)],
                           total_dist_50ft |-> [base |-> Num(600)]])>>}

ConcFleet ==
    {WithProfiles(ac, pl) : ac \in {a \in Fleet : a.registration = "D-EBPF"},
                            pl \in ConcProfileLists}

ConcMBRequests ==
    [weight_inputs : {<<[station_name |-> "Pilot", weight_kg |-> 10]>>,
                      <<[station_name |-> "Baggage", weight_kg |-> 20],
                        [station_name |-> "Baggage", weight_kg |-> 20]>>},
     fuel_inputs : {None, [list |-> <<[tank_name |-> "Main", fuel_l |-> 50],
                                      [tank_name |-> "Aux", fuel_l |-> 25]>>]},
     fuel_liters_legacy : {None, [value |-> 50]},
     trip_fuel_liters : {25, 100}]

\* Weights of 1/4 of the MTOW of that aircraft and at MTOW.
ConcPerfRequests ==
    [weight_kg : {19, 76},
     pressure_altitude_ft : {0},
     temperature_c : {15, 40},
     wind_component_kt : {-20, 5},
     runway_condition : {"grass"},
     runway_slope_percent : {0, 2}]

InitConc ==
    /\ aircraft \in ConcFleet
    /\ mb_request \in ConcMBRequests
    /\ perf_request \in ConcPerfRequests
    /\ mb_locals = Idle
    /\ mb_response = Pending
    /\ perf_locals = Idle
    /\ perf_response = Pending
    /\ cg_call = Idle
    /\ cg_result = Pending

\* A call has started and has not returned.
MBInFlight == mb_locals.called /\ ~mb_response.returned
PerfInFlight == perf_locals.called /\ ~perf_response.returned

\* MassBalanceService.calculate up to the return of calculate_moments.  The
\* field interleaved of a call's locals records, for inspection, that a step
\* of the call ran while the other call was in flight.
mb_moments ==
    /\ ~mb_locals.called
    /\ mb_request \in ConcMBRequests
    /\ mb_locals' = [called |-> TRUE, pc |-> "validate_phases",
                     results |-> CalculateMoments(aircraft, mb_request.weight_inputs,
                                                  mb_request.fuel_inputs,
                                                  mb_request.fuel_liters_legacy,
                                                  mb_request.trip_fuel_liters),
                     interleaved |-> FALSE]
    /\ aircraft' = [aircraft EXCEPT !.fuel_tanks = FuelTanksAfterBurnLoop(@)]
    /\ UNCHANGED <<mb_request, mb_response, cg_call, cg_result,
                   perf_request, perf_locals, perf_response>>

\* ... validate_phases on the results.
mb_validate ==
    /\ mb_locals.called
    /\ mb_locals.pc = "validate_phases"
    /\ mb_locals' = [called |-> TRUE, pc |-> "respond",
                     results |-> mb_locals.results,
                     validation |-> ValidatePhases(aircraft, mb_locals.results),
                     interleaved |-> mb_locals.interleaved \/ PerfInFlight]
    /\ UNCHANGED <<aircraft, mb_request, mb_response, cg_call, cg_result,
                   perf_request, perf_locals, perf_response>>

\* ... the warnings, the chart and the response.
mb_respond ==
    /\ mb_locals.called
    /\ mb_locals.pc = "respond"
    /\ mb_locals' = [called |-> TRUE, pc |-> "done",
                     loaded_qty |-> mb_locals.results.loaded_qty,
                     landing_qty |-> mb_locals.results.landing_qty,
                     validation |-> mb_locals.validation,
                     interleaved |-> mb_locals.interleaved \/ PerfInFlight]
    /\ \E rendering_fails \in BOOLEAN :
          mb_response' = [returned |-> TRUE,
                          response |-> MassBalanceResponse(
                                           aircraft, mb_locals.results, mb_locals.validation,
                                           GenerateChart(rendering_fails))]
    /\ UNCHANGED <<aircraft, mb_request, cg_call, cg_result,
                   perf_request, perf_locals, perf_response>>

\* PerformanceService.calculate up to the return of the takeoff phase.
perf_takeoff ==
    /\ ~perf_locals.called
    /\ perf_request \in ConcPerfRequests
    /\ LET density_alt == CalculateDensityAltitude(perf_request.pressure_altitude_ft,
                                                   perf_request.temperature_c)
       IN  perf_locals' =
               [called |-> TRUE, pc |-> "landing",
                density_alt |-> density_alt,
                takeoff |-> CalculatePhase(aircraft, "takeoff", GetProfile(aircraft, "takeoff"),
                                           perf_request.weight_kg, density_alt,
                                           perf_request.wind_component_kt,
                                           perf_request.runway_condition,
                                           perf_request.runway_slope_percent),
                interleaved |-> FALSE]
    /\ UNCHANGED <<aircraft, perf_request, perf_response, cg_call, cg_result,
                   mb_request, mb_locals, mb_response>>

\* ... the landing phase.
perf_landing ==
    /\ perf_locals.called
    /\ perf_locals.pc = "landing"
    /\ perf_locals' =
           [called |-> TRUE, pc |-> "respond",
            phases |-> [density_alt |-> perf_locals.density_alt,
                        takeoff |-> perf_locals.takeoff,
                        landing |-> CalculatePhase(aircraft, "landing",
                                                   GetProfile(aircraft, "landing"),
                                                   perf_request.weight_kg,
                                                   perf_locals.density_alt,
                                                   perf_request.wind_component_kt,
                                                   perf_request.runway_condition,
                                                   perf_request.runway_slope_percent)],
            interleaved |-> perf_locals.interleaved \/ MBInFlight]
    /\ UNCHANGED <<aircraft, perf_request, perf_response, cg_call, cg_result,
                   mb_request, mb_locals, mb_response>>

\* ... the global warnings and the response.
perf_respond ==
    /\ perf_locals.called
    /\ perf_locals.pc = "respond"
    /\ perf_locals' = [called |-> TRUE, pc |-> "done", phases |-> perf_locals.phases,
                       interleaved |-> perf_locals.interleaved \/ MBInFlight]
    /\ \E listed \in ListsOfSet(Elements(PerformanceWarnings(
                                              perf_locals.phases,
                                              perf_request.wind_component_kt))) :
          perf_response' = [returned |-> TRUE,
                            response |-> PerformanceResponse(perf_locals.phases, listed)]
    /\ UNCHANGED <<aircraft, perf_request, cg_call, cg_result,
                   mb_request, mb_locals, mb_response>>

NextConc ==
    \/ mb_moments
    \/ mb_validate
    \/ mb_respond
    \/ perf_takeoff
    \/ perf_landing
    \/ perf_respond

SpecConc == InitConc /\ [][NextConc]_vars

(***************************************************************************)
(* Geometry the claims are stated in, written independently of the         *)
(* operators above.                                                        *)
(***************************************************************************)
HasText(warnings, text) == \E i \in 1..Len(warnings) : warnings[i].text = text

CGReturned == cg_result.returned
CGHasPolygon == cg_call.envelope # None /\ Len(cg_call.envelope.polygon_points) >= 3
CGPoly == cg_call.envelope.polygon_points
CGWarnings == cg_result.result.warnings

\* Squared distance between the point (arm, weight) and the vertex v.
VertexDistSq(arm, weight, v) ==
    <<(arm[1] - v.arm_m * arm[2]) * (arm[1] - v.arm_m * arm[2])
        + (weight - v.weight_kg) * arm[2] * (weight - v.weight_kg) * arm[2],
      arm[2] * arm[2]>>

\* Some point of the closed segment from a to b is within epsilon of the
\* point: an end point is, or the foot of the perpendicular lies strictly
\* between the ends and is.
NearSegment(arm, weight, a, b, epsilon) ==
    LET dx == b.arm_m - a.arm_m
        dy == b.weight_kg - a.weight_kg
        rx == arm[1] - a.arm_m * arm[2]
        ry == (weight - a.weight_kg) * arm[2]
        len2 == dx * dx + dy * dy
        dot == rx * dx + ry * dy
        area == rx * dy - ry * dx
    IN  \/ SqLeqEps(VertexDistSq(arm, weight, a), epsilon)
        \/ SqLeqEps(VertexDistSq(arm, weight, b), epsilon)
        \/ /\ 0 < dot
           /\ dot < len2 * arm[2]
           /\ SqLeqEps(<<area * area, len2 * arm[2] * arm[2]>>, epsilon)

\* The edges of a vertex list, the closing edge included, as pairs of vertices.
EdgesOf(pp) ==
    {<<pp[i], pp[i + 1]>> : i \in 1..(Len(pp) - 1)} \cup {<<pp[Len(pp)], pp[1]>>}

NearBoundary(arm, weight, pp, epsilon) ==
    \E e \in EdgesOf(pp) : NearSegment(arm, weight, e[1], e[2], epsilon)

\* Twice the signed area of the triangle a, b, c.
Orient(a, b, c) ==
    (b.arm_m - a.arm_m) * (c.weight_kg - a.weight_kg)
    - (b.weight_kg - a.weight_kg) * (c.arm_m - a.arm_m)

Sign(x) == IF x > 0 THEN 1 ELSE IF x < 0 THEN -1 ELSE 0

\* c, collinear with a and b, lies on the closed segment from a to b.
Between(a, b, c) ==
    /\ (a.arm_m <= c.arm_m /\ c.arm_m <= b.arm_m) \/ (b.arm_m <= c.arm_m /\ c.arm_m <= a.arm_m)
    /\ \/ (a.weight_kg <= c.weight_kg /\ c.weight_kg <= b.weight_kg)
       \/ (b.weight_kg <= c.weight_kg /\ c.weight_kg <= a.weight_kg)

\* The closed segments a-b and c-d have a point in common.
SegmentsMeet(a, b, c, d) ==
    LET o1 == Sign(Orient(a, b, c))
        o2 == Sign(Orient(a, b, d))
        o3 == Sign(Orient(c, d, a))
        o4 == Sign(Orient(c, d, b))
    IN  \/ o1 # o2 /\ o3 # o4
        \/ o1 = 0 /\ Between(a, b, c)
        \/ o2 = 0 /\ Between(a, b, d)
        \/ o3 = 0 /\ Between(c, d, a)
        \/ o4 = 0 /\ Between(c, d, b)

\* Edges i and k of pp (edge i runs from pp[i] to its successor).
EdgeFrom(pp, i) == <<pp[i], pp[(i % Len(pp)) + 1]>>

\* A simple polygon: distinct vertices, consecutive edges meet only in their
\* common vertex, other edges do not meet.
SimplePolygon(pp) ==
    LET n == Len(pp)
    IN  /\ \A i \in 1..n : \A k \in 1..n : i < k => pp[i] # pp[k]
        /\ \A i \in 1..n :
              LET a == pp[i]
                  b == pp[(i % n) + 1]
                  c == pp[((i + 1) % n) + 1]
              IN  \* edges a-b and b-c do not fold back onto each other
                  ~(Orient(a, b, c) = 0
                    /\ (a.arm_m - b.arm_m) * (c.arm_m - b.arm_m)
                       + (a.weight_kg - b.weight_kg) * (c.weight_kg - b.weight_kg) > 0)
        /\ \A i \in 1..n : \A k \in 1..n :
              (i < k /\ k # i + 1 /\ ~(i = 1 /\ k = n)) =>
                  ~SegmentsMeet(EdgeFrom(pp, i)[1], EdgeFrom(pp, i)[2],
                                EdgeFrom(pp, k)[1], EdgeFrom(pp, k)[2])

\* Even-odd containment decided with the ray that leaves the point in the
\* direction of increasing weight: the edge from a to b is crossed when the
\* point's arm lies in the half-open arm range of the edge and the point is
\* below the edge there.
CrossesAbove(arm, weight, a, b) ==
    LET dx == b.arm_m - a.arm_m
        dy == b.weight_kg - a.weight_kg
        lhs == (weight - a.weight_kg) * arm[2] * dx
        rhs == dy * (arm[1] - a.arm_m * arm[2])
    IN  /\ (a.arm_m * arm[2] > arm[1]) # (b.arm_m * arm[2] > arm[1])
        /\ IF dx > 0 THEN lhs < rhs ELSE lhs > rhs

Contains(pp, arm, weight) ==
    Cardinality({i \in 1..Len(pp) :
                    CrossesAbove(arm, weight, EdgeFrom(pp, i)[1], EdgeFrom(pp, i)[2])}) % 2 = 1

ArmBelow(arm, x) == arm[1] < x * arm[2]
ArmAbove(arm, x) == arm[1] > x * arm[2]
\* arm < x - epsilon and arm > x + epsilon, for epsilon = 1/k.
ArmBelowBy(arm, x, epsilon) == (x * arm[2] - arm[1]) * epsilon[2] > arm[2]
ArmAboveBy(arm, x, epsilon) == (arm[1] - x * arm[2]) * epsilon[2] > arm[2]

MinArm(pp) == CHOOSE x \in {pp[i].arm_m : i \in 1..Len(pp)} :
                  \A i \in 1..Len(pp) : x <= pp[i].arm_m
MaxArm(pp) == CHOOSE x \in {pp[i].arm_m : i \in 1..Len(pp)} :
                  \A i \in 1..Len(pp) : x >= pp[i].arm_m
MinWeight(pp) == CHOOSE x \in {pp[i].weight_kg : i \in 1..Len(pp)} :
                  \A i \in 1..Len(pp) : x <= pp[i].weight_kg
MaxWeight(pp) == CHOOSE x \in {pp[i].weight_kg : i \in 1..Len(pp)} :
                  \A i \in 1..Len(pp) : x >= pp[i].weight_kg

(***************************************************************************)
(* Claims about validate_point, checked under SpecCG.                      *)
(***************************************************************************)

\* C3: a point within epsilon of some edge of the polygon, the closing edge
\* from the last vertex to the first included, is within limits with no
\* warnings, whatever the ray-casting test says about it.
C3_BoundaryInclusive ==
    (CGReturned /\ CGHasPolygon
        /\ NearBoundary(cg_call.arm, cg_call.weight, CGPoly, cg_call.epsilon))
    => cg_result.result = [within_limits |-> TRUE, warnings |-> <<>>]

\* C3 witness: a point on the closing edge only, which ray casting puts outside.
C3_Witness ==
    /\ CGReturned /\ CGHasPolygon
    /\ NearSegment(cg_call.arm, cg_call.weight, CGPoly[Len(CGPoly)], CGPoly[1], cg_call.epsilon)
    /\ \A i \in 1..(Len(CGPoly) - 1) :
          ~NearSegment(cg_call.arm, cg_call.weight, CGPoly[i], CGPoly[i + 1], cg_call.epsilon)
    /\ ~IsInside(PolyOf(CGPoly), cg_call.arm, cg_call.weight)
    /\ cg_result.result.within_limits

\* C4: for a simple polygon and a point farther than epsilon from every edge,
\* within_limits is the even-odd containment of the point, and a point inside
\* gets no warnings.
C4_RayCastIsContainment ==
    (CGReturned /\ CGHasPolygon /\ SimplePolygon(CGPoly)
        /\ ~NearBoundary(cg_call.arm, cg_call.weight, CGPoly, cg_call.epsilon))
    => /\ cg_result.result.within_limits = Contains(CGPoly, cg_call.arm, cg_call.weight)
       /\ Contains(CGPoly, cg_call.arm, cg_call.weight) => CGWarnings = <<>>

\* C4 witness: a point inside a simple polygon that is not convex, with a
\* horizontal edge, a slanted edge and a vertex at the point's weight.
C4_Witness ==
    /\ CGReturned /\ CGHasPolygon /\ SimplePolygon(CGPoly)
    /\ Len(CGPoly) = 4
    /\ \E i \in 1..4 : Orient(CGPoly[i], CGPoly[(i % 4) + 1], CGPoly[((i + 1) % 4) + 1]) > 0
    /\ \E i \in 1..4 : Orient(CGPoly[i], CGPoly[(i % 4) + 1], CGPoly[((i + 1) % 4) + 1]) < 0
    /\ \E i \in 1..4 : CGPoly[i].weight_kg = cg_call.weight
    /\ \E i \in 1..4 : /\ CGPoly[i].weight_kg # CGPoly[(i % 4) + 1].weight_kg
                       /\ CGPoly[i].arm_m # CGPoly[(i % 4) + 1].arm_m
    /\ ~NearBoundary(cg_call.arm, cg_call.weight, CGPoly, cg_call.epsilon)
    /\ Contains(CGPoly, cg_call.arm, cg_call.weight)
    /\ cg_result.result.within_limits

\* C5 as claimed (stated for simple polygons): for a point out of limits, an arm strictly below (above) the
\* least (greatest) arm of the polygon gives the FORE (AFT) warning, and a
\* weight strictly above (below) the greatest (least) weight gives the
\* over-weight (under-weight) warning.
C5_StrictBoundingBox ==
    (CGReturned /\ CGHasPolygon /\ SimplePolygon(CGPoly) /\ ~cg_result.result.within_limits) =>
        /\ ArmBelow(cg_call.arm, MinArm(CGPoly)) => HasText(CGWarnings, "CG too far FORE")
        /\ ArmAbove(cg_call.arm, MaxArm(CGPoly)) => HasText(CGWarnings, "CG too far AFT")
        /\ cg_call.weight > MaxWeight(CGPoly)
              => HasText(CGWarnings, "Weight exceeds Envelope Maximum")
        /\ cg_call.weight < MinWeight(CGPoly)
              => HasText(CGWarnings, "Weight below Envelope Minimum")

\* C5 amended: the same with every limit widened by epsilon: an arm below
\* min_arm - epsilon (above max_arm + epsilon) gives FORE (AFT), a weight above
\* max_weight + epsilon (below min_weight - epsilon) gives the weight warning,
\* and an arm warning and a weight warning are both given when both hold.
C5_BoundingBoxBeyondEpsilon ==
    (CGReturned /\ CGHasPolygon /\ ~cg_result.result.within_limits) =>
        /\ ArmBelowBy(cg_call.arm, MinArm(CGPoly), cg_call.epsilon)
              => HasText(CGWarnings, "CG too far FORE")
        /\ ArmAboveBy(cg_call.arm, MaxArm(CGPoly), cg_call.epsilon)
              => HasText(CGWarnings, "CG too far AFT")
        /\ (cg_call.weight - MaxWeight(CGPoly)) * cg_call.epsilon[2] > 1
              => HasText(CGWarnings, "Weight exceeds Envelope Maximum")
        /\ (MinWeight(CGPoly) - cg_call.weight) * cg_call.epsilon[2] > 1
              => HasText(CGWarnings, "Weight below Envelope Minimum")

\* C5 witness: a point too far aft and too heavy, with both warnings.
C5_Witness ==
    /\ CGReturned /\ CGHasPolygon /\ ~cg_result.result.within_limits
    /\ ArmAboveBy(cg_call.arm, MaxArm(CGPoly), cg_call.epsilon)
    /\ (cg_call.weight - MaxWeight(CGPoly)) * cg_call.epsilon[2] > 1
    /\ HasText(CGWarnings, "CG too far AFT")
    /\ HasText(CGWarnings, "Weight exceeds Envelope Maximum")

BoxTexts == {"CG too far FORE", "CG too far AFT",
             "Weight exceeds Envelope Maximum", "Weight below Envelope Minimum"}

\* C6: a result out of limits has a warning; the generic warning, naming the
\* envelope's category, is there exactly when the result is out of limits and
\* none of the four bounding-box warnings is; a result within limits has a
\* warning only when there is no envelope.
C6_WarningsMatchVerdict ==
    CGReturned =>
        /\ ~cg_result.result.within_limits => Len(CGWarnings) >= 1
        /\ HasText(CGWarnings, "outside envelope limits")
              <=> /\ ~cg_result.result.within_limits
                  /\ \A t \in BoxTexts : ~HasText(CGWarnings, t)
        /\ \A i \in 1..Len(CGWarnings) :
              CGWarnings[i].text = "outside envelope limits"
                  => CGWarnings[i].category = cg_call.envelope.category
        /\ (cg_result.result.within_limits /\ CGWarnings # <<>>)
              => (cg_call.envelope = None \/ cg_call.envelope.polygon_points = <<>>)

\* C6 witness: a point inside the bounding box of the polygon and outside the
\* polygon, reported with the generic warning alone.
C6_Witness ==
    /\ CGReturned /\ CGHasPolygon /\ ~cg_result.result.within_limits
    /\ ~ArmBelow(cg_call.arm, MinArm(CGPoly)) /\ ~ArmAbove(cg_call.arm, MaxArm(CGPoly))
    /\ cg_call.weight <= MaxWeight(CGPoly) /\ cg_call.weight >= MinWeight(CGPoly)
    /\ Len(CGWarnings) = 1
    /\ CGWarnings[1].text = "outside envelope limits"
    /\ CGWarnings[1].category = "utility"

\* C7: without an envelope, or with an envelope that has no polygon points,
\* the result is within limits with exactly one warning, the notice that no
\* CG envelope is defined, for every weight and arm.
C7_NoEnvelopeFailsOpen ==
    (CGReturned /\ (cg_call.envelope = None \/ cg_call.envelope.polygon_points = <<>>))
    => /\ cg_result.result.within_limits
       /\ Len(CGWarnings) = 1
       /\ CGWarnings[1].text = "No CG envelope defined for validation."

\* C7 witness: an envelope object whose list of points is empty.
C7_Witness ==
    /\ CGReturned
    /\ cg_call.envelope # None
    /\ cg_call.envelope.polygon_points = <<>>
    /\ cg_result.result.within_limits
    /\ Len(CGWarnings) = 1

(***************************************************************************)
(* Claims about the mass and balance service, checked under SpecMB.        *)
(***************************************************************************)
MBReturned == mb_response.returned
Resp == mb_response.response
ZeroFuelPoint == Resp.cg_points[1]
TakeoffPoint == Resp.cg_points[2]
LandingPoint == Resp.cg_points[3]

MigrationText == "CRITICAL: CG shifts OUT OF LIMITS during flight (Landing state unsafe)."
MtowText == "Takeoff weight exceeds MTOW"
NoEnvelopeText == "No CG envelope defined for validation."

\* w is one of the warnings of the list.
InWarnings(w, warnings) == \E i \in 1..Len(warnings) : warnings[i] = w

\* C1: the response has the critical migration warning exactly when the
\* takeoff point is within limits and the landing point is not.
C1_MigrationWarningIff ==
    MBReturned =>
        (HasText(Resp.warnings, MigrationText)
            <=> (TakeoffPoint.within_limits /\ ~LandingPoint.within_limits))

\* C1 witness: takeoff within limits, landing out of limits after the fuel
\* burn, and the warning in the response.
C1_Witness ==
    /\ MBReturned
    /\ TakeoffPoint.label = "Takeoff" /\ LandingPoint.label = "Landing"
    /\ TakeoffPoint.within_limits /\ ~LandingPoint.within_limits
    /\ mb_request.trip_fuel_liters > 0
    /\ HasText(Resp.warnings, MigrationText)

\* The three cases without the warning, each reached by the fleet.
C1_BothOut == MBReturned /\ ~TakeoffPoint.within_limits /\ ~LandingPoint.within_limits
C1_TakeoffOutLandingIn ==
    MBReturned /\ ~TakeoffPoint.within_limits /\ LandingPoint.within_limits
C1_BothInWithEnvelope ==
    /\ MBReturned /\ TakeoffPoint.within_limits /\ LandingPoint.within_limits
    /\ mb_locals.validation.envelope # None
    /\ TakeoffPoint.arm_m # LandingPoint.arm_m

\* C2: tanks are depleted in reverse list order.  A trip fuel of no more than
\* the last tank's loaded quantity leaves every earlier tank at its loaded
\* quantity; a tank lands below its loaded quantity only if every later tank
\* lands empty; so at most one tank is partially drained.
C2_SequentialBurn ==
    mb_locals.called =>
        LET n == Len(aircraft.fuel_tanks)
            loaded == mb_locals.loaded_qty
            landing == mb_locals.landing_qty
        IN  /\ (n >= 1 /\ mb_request.trip_fuel_liters <= loaded[n])
                  => \A i \in 1..(n - 1) : landing[i] = loaded[i]
            /\ \A i \in 1..n :
                  landing[i] < loaded[i] => \A k \in (i + 1)..n : landing[k] = 0
            /\ Cardinality({i \in 1..n : 0 < landing[i] /\ landing[i] < loaded[i]}) <= 1

\* C2 witness: the trip fuel empties a later tank that held fuel and drains an
\* earlier tank partially.
C2_Witness ==
    /\ mb_locals.called
    /\ \E i \in 1..Len(aircraft.fuel_tanks) :
          /\ 0 < mb_locals.landing_qty[i]
          /\ mb_locals.landing_qty[i] < mb_locals.loaded_qty[i]
          /\ \E k \in (i + 1)..Len(aircraft.fuel_tanks) :
                mb_locals.loaded_qty[k] > 0 /\ mb_locals.landing_qty[k] = 0

\* The aircraft has no usable normal-category envelope: none of that
\* category, or none of that category with points.
NoUsableNormalEnvelope(ac) ==
    \A i \in 1..Len(ac.cg_envelopes) :
        ac.cg_envelopes[i].category = "normal" => ac.cg_envelopes[i].polygon_points = <<>>

\* C8 as claimed: without a usable normal-category envelope the three CG
\* points are within limits and the response's warnings include the notice
\* that no CG envelope is defined.
C8_NoEnvelopeFlagged ==
    (MBReturned /\ NoUsableNormalEnvelope(aircraft)) =>
        /\ \A i \in 1..3 : Resp.cg_points[i].within_limits
        /\ HasText(Resp.warnings, NoEnvelopeText)

\* C9: the response has the MTOW warning exactly when the takeoff weight is
\* above MTOW, whatever the CG validation found, and within_weight_limits is
\* false exactly then.
C9_MtowWarningIff ==
    MBReturned =>
        /\ HasText(Resp.warnings, MtowText) <=> Resp.takeoff_weight_kg > aircraft.mtow_kg
        /\ Resp.within_weight_limits <=> ~(Resp.takeoff_weight_kg > aircraft.mtow_kg)

\* C9 witness: an overweight takeoff whose three CG points are within the
\* envelope, reported with the MTOW warning.
C9_Witness ==
    /\ MBReturned
    /\ Resp.takeoff_weight_kg > aircraft.mtow_kg
    /\ mb_locals.validation.envelope # None
    /\ \A i \in 1..3 : Resp.cg_points[i].within_limits
    /\ HasText(Resp.warnings, MtowText)
    /\ ~Resp.within_weight_limits

\* Takeoff weight equal to MTOW: within limits and no warning.
C9_AtMtow ==
    /\ MBReturned
    /\ Resp.takeoff_weight_kg = aircraft.mtow_kg
    /\ Resp.within_weight_limits
    /\ ~HasText(Resp.warnings, MtowText)

PhaseNames == {"zero_fuel", "takeoff", "landing"}
PhasePoint(p) == CASE p = "zero_fuel" -> ZeroFuelPoint
                   [] p = "takeoff" -> TakeoffPoint
                   [] p = "landing" -> LandingPoint

\* The number of warnings the phases out of limits produced.
OutOfLimitsWarningCount ==
    LET cnt(p) == IF PhasePoint(p).within_limits THEN 0
                  ELSE Len(mb_locals.validation[p].warnings)
    IN  cnt("zero_fuel") + cnt("takeoff") + cnt("landing")

\* C10: for each phase, the warnings of validating its point are in the
\* response when the phase is out of limits, and a phase within limits
\* contributes no warning: besides the migration and the MTOW warning the
\* response holds the warnings of the phases out of limits and nothing else.
C10_PhaseWarningsIffOutOfLimits ==
    MBReturned =>
        /\ \A p \in PhaseNames :
              /\ PhasePoint(p).within_limits = mb_locals.validation[p].within_limits
              /\ ~PhasePoint(p).within_limits =>
                    \A i \in 1..Len(mb_locals.validation[p].warnings) :
                        InWarnings(mb_locals.validation[p].warnings[i], Resp.warnings)
        /\ Len(Resp.warnings) =
              OutOfLimitsWarningCount
              + (IF HasText(Resp.warnings, MigrationText) THEN 1 ELSE 0)
              + (IF HasText(Resp.warnings, MtowText) THEN 1 ELSE 0)

\* C10 witness: the zero-fuel point is within limits, the takeoff point is
\* not, and the response holds the takeoff point's warnings.
C10_Witness ==
    /\ MBReturned
    /\ ZeroFuelPoint.within_limits /\ ~TakeoffPoint.within_limits
    /\ mb_locals.validation.takeoff.warnings # <<>>
    /\ \A i \in 1..Len(mb_locals.validation.takeoff.warnings) :
          InWarnings(mb_locals.validation.takeoff.warnings[i], Resp.warnings)

\* The names the aircraft has.
StationNames(ac) == {ac.weight_stations[i].name : i \in 1..Len(ac.weight_stations)}
TankNames(ac) == {ac.fuel_tanks[i].name : i \in 1..Len(ac.fuel_tanks)}

\* The weight inputs of the request whose station the aircraft has / has not.
KnownStation(w) == w.station_name \in StationNames(aircraft)
UnknownStation(w) == ~KnownStation(w)
KnownInputs == SelectSeq(mb_request.weight_inputs, KnownStation)
UnknownInputs == SelectSeq(mb_request.weight_inputs, UnknownStation)

RECURSIVE SumWeights(_)
SumWeights(inputs) ==
    IF inputs = <<>> THEN 0 ELSE Head(inputs).weight_kg + SumWeights(Tail(inputs))

\* The phases of the same request without its unknown-station inputs.
WithoutUnknown ==
    CalculateMoments(aircraft, KnownInputs, mb_request.fuel_inputs,
                     mb_request.fuel_liters_legacy, mb_request.trip_fuel_liters)

\* C11: weight inputs naming a station the aircraft does not have add their
\* full weight to the payload and to the zero-fuel, takeoff and landing
\* weights and nothing to any phase moment, and the response is returned.
C11_UnknownStationZeroMoment ==
    MBReturned =>
        LET extra == SumWeights(UnknownInputs)
            base == WithoutUnknown
        IN  /\ Resp.payload_kg = SumWeights(mb_request.weight_inputs)
            /\ Resp.payload_kg = base.payload_kg + extra
            /\ Resp.zero_fuel_weight_kg = base.zero_fuel[1] + extra
            /\ Resp.takeoff_weight_kg = base.takeoff[1] + extra
            /\ Resp.landing_weight_kg = base.landing[1] + extra
            /\ ZeroFuelPoint.moment_kg_m = base.zero_fuel[3]
            /\ TakeoffPoint.moment_kg_m = base.takeoff[3]
            /\ LandingPoint.moment_kg_m = base.landing[3]

\* C11 witness: a response to a request with an unknown-station input of
\* positive weight next to a known one.
C11_Witness ==
    /\ MBReturned
    /\ SumWeights(UnknownInputs) > 0
    /\ KnownInputs # <<>>
    /\ Resp.payload_kg > SumWeights(KnownInputs)

\* The request names a station or, in its per-tank fuel inputs, a tank that
\* the aircraft does not have.
NamesUnknownStation == UnknownInputs # <<>>
NamesUnknownTank ==
    /\ mb_request.fuel_inputs # None
    /\ \E i \in 1..Len(mb_request.fuel_inputs.list) :
          mb_request.fuel_inputs.list[i].tank_name \notin TankNames(aircraft)

\* The texts of the warnings about limits; an advisory about an unknown name
\* is a warning with another text.
LimitTexts ==
    BoxTexts \cup {"outside envelope limits", NoEnvelopeText, MigrationText, MtowText}
HasAdvisory(warnings) == \E i \in 1..Len(warnings) : warnings[i].text \notin LimitTexts

\* C12 as claimed: a request naming an unknown station or tank is answered,
\* the unknown names contribute no moment and no fuel, and the response's
\* warnings include an advisory about the unknown name.
C12_UnknownNameAdvisory ==
    (MBReturned /\ (NamesUnknownStation \/ NamesUnknownTank)) =>
        /\ ZeroFuelPoint.moment_kg_m = WithoutUnknown.zero_fuel[3]
        /\ HasAdvisory(Resp.warnings)

\* The quantity the per-tank inputs give a tank: that of the last input
\* naming it, 0 when none does.
PerTankQty(list, name) ==
    IF \E i \in 1..Len(list) : list[i].tank_name = name
    THEN list[CHOOSE i \in 1..Len(list) :
                  /\ list[i].tank_name = name
                  /\ \A k \in 1..Len(list) : list[k].tank_name = name => k <= i].fuel_l
    ELSE 0

\* The quantity the legacy total gives tank i.
LegacyQty(i) ==
    IF mb_request.fuel_liters_legacy # None /\ i = 1
    THEN mb_request.fuel_liters_legacy.value ELSE 0

\* C13 as claimed: whenever a list of per-tank inputs is supplied, empty or
\* not, it alone determines the tank quantities and the legacy value is
\* ignored.
C13_SuppliedListAlone ==
    (mb_locals.called /\ mb_request.fuel_inputs # None) =>
        \A i \in 1..Len(aircraft.fuel_tanks) :
            mb_locals.loaded_qty[i]
                = PerTankQty(mb_request.fuel_inputs.list, aircraft.fuel_tanks[i].name)

\* C13: a non-empty list of per-tank inputs alone determines the tank
\* quantities (tanks not mentioned get 0) and the legacy value is ignored;
\* with no list or an empty one a legacy value goes entirely to the first
\* tank and every other tank gets 0; without tanks the legacy value adds no
\* fuel mass, so takeoff and landing weight equal the zero-fuel weight.
C13_FuelInputResolution ==
    (mb_locals.called /\ MBReturned) =>
        LET perTank == mb_request.fuel_inputs # None /\ mb_request.fuel_inputs.list # <<>>
        IN  /\ \A i \in 1..Len(aircraft.fuel_tanks) :
                  mb_locals.loaded_qty[i]
                      = IF perTank
                        THEN PerTankQty(mb_request.fuel_inputs.list,
                                        aircraft.fuel_tanks[i].name)
                        ELSE LegacyQty(i)
            /\ aircraft.fuel_tanks = <<>> =>
                  /\ Resp.fuel_weight_kg = 0
                  /\ Resp.takeoff_weight_kg = Resp.zero_fuel_weight_kg
                  /\ Resp.landing_weight_kg = Resp.zero_fuel_weight_kg

\* C13 witness: per-tank inputs and a legacy value are both supplied to an
\* aircraft with several tanks, and the per-tank inputs leave the first tank
\* empty.
C13_Witness ==
    /\ mb_locals.called
    /\ mb_request.fuel_inputs # None /\ mb_request.fuel_inputs.list # <<>>
    /\ mb_request.fuel_liters_legacy # None
    /\ Len(aircraft.fuel_tanks) >= 2
    /\ mb_locals.loaded_qty[1] = 0
    /\ mb_locals.loaded_qty[2] > 0

\* A legacy value reaches the first tank; a legacy value meets no tank.
C13_LegacyFirstTank ==
    /\ mb_locals.called /\ mb_request.fuel_inputs = None
    /\ Len(aircraft.fuel_tanks) >= 2
    /\ mb_locals.loaded_qty[1] = 50 /\ mb_locals.loaded_qty[2] = 0
C13_LegacyNoTank ==
    /\ MBReturned /\ mb_request.fuel_liters_legacy # None /\ aircraft.fuel_tanks = <<>>

\* Sum over the tanks from i on of liters x density, in hundredths of a
\* weight unit.
RECURSIVE LitersTimesDensity(_, _)
LitersTimesDensity(qty, i) ==
    IF i > Len(aircraft.fuel_tanks) THEN 0
    ELSE qty[i] * GetFuelDensity(aircraft.fuel_tanks[i].fuel_type)
         + LitersTimesDensity(qty, i + 1)

IsExampleRequest ==
    /\ aircraft = ExampleAircraft
    /\ mb_request.weight_inputs = <<[station_name |-> "Pilot", weight_kg |-> 800]>>
    /\ mb_request.fuel_inputs # None \/ mb_request.fuel_liters_legacy # None
    /\ mb_request.trip_fuel_liters = 300

\* C14: takeoff weight = empty weight + payload + sum of loaded liters x
\* density, landing weight = takeoff weight - sum of burned liters x density;
\* empty 750 kg, pilot 80 kg, 100 L of AvGas and 30 L of trip fuel give a
\* takeoff weight of 902 kg and a landing weight of 880.4 kg (9020 and 8804
\* tenths).
C14_WeightFormula ==
    (mb_locals.called /\ MBReturned) =>
        LET burned == [i \in 1..Len(aircraft.fuel_tanks) |->
                          mb_locals.loaded_qty[i] - mb_locals.landing_qty[i]]
        IN  /\ 100 * Resp.takeoff_weight_kg
                  = 100 * (aircraft.empty_weight_kg + SumWeights(mb_request.weight_inputs))
                    + LitersTimesDensity(mb_locals.loaded_qty, 1)
            /\ 100 * Resp.landing_weight_kg
                  = 100 * Resp.takeoff_weight_kg - LitersTimesDensity(burned, 1)
            /\ IsExampleRequest =>
                  Resp.takeoff_weight_kg = 9020 /\ Resp.landing_weight_kg = 8804

\* C14 witness: the response to the example scenario.
C14_Witness ==
    /\ MBReturned
    /\ IsExampleRequest
    /\ Resp.takeoff_weight_kg = 9020
    /\ Resp.landing_weight_kg = 8804

\* C15: whether or not the chart was rendered, the response's weights, CG
\* points, limit flags and warnings are those the calculation determines from
\* the aircraft and the request; only chart_image_base64 differs.
C15_ChartFailureChangesOnlyChart ==
    MBReturned =>
        LET results == CalculateMoments(aircraft, mb_request.weight_inputs,
                                        mb_request.fuel_inputs,
                                        mb_request.fuel_liters_legacy,
                                        mb_request.trip_fuel_liters)
            validation == ValidatePhases(aircraft, results)
        IN  /\ Resp.chart_image_base64 \in {None, [base64 |-> "png"]}
            /\ Resp.empty_weight_kg = aircraft.empty_weight_kg
            /\ Resp.payload_kg = results.payload_kg
            /\ Resp.fuel_weight_kg = results.fuel_weight_kg
            /\ Resp.zero_fuel_weight_kg = results.zero_fuel[1]
            /\ Resp.takeoff_weight_kg = results.takeoff[1]
            /\ Resp.landing_weight_kg = results.landing[1]
            /\ Resp.cg_points = <<CGPoint("Zero Fuel", results.zero_fuel, validation.zero_fuel),
                                  CGPoint("Takeoff", results.takeoff, validation.takeoff),
                                  CGPoint("Landing", results.landing, validation.landing)>>
            /\ Resp.within_weight_limits = (results.takeoff[1] <= aircraft.mtow_kg)
            /\ Resp.within_cg_limits
                  = (validation.takeoff.within_limits /\ validation.landing.within_limits)
            /\ Resp.warnings = ConstructWarnings(aircraft, validation, results.takeoff[1])

\* C15 witness: a response without a chart that reports a CG out of limits
\* and carries warnings.
C15_Witness ==
    /\ MBReturned
    /\ Resp.chart_image_base64 = None
    /\ ~Resp.within_cg_limits
    /\ Resp.warnings # <<>>

ResponseFields ==
    {"empty_weight_kg", "payload_kg", "fuel_weight_kg", "takeoff_weight_kg",
     "landing_weight_kg", "zero_fuel_weight_kg", "cg_points", "within_weight_limits",
     "within_cg_limits", "warnings", "chart_image_base64"}

\* A CG point with a weight, an arm that is a number, a moment and a verdict.
CompletePoint(pt) ==
    /\ pt.weight_kg \in Nat
    /\ Len(pt.arm_m) = 2 /\ pt.arm_m[1] \in Nat /\ pt.arm_m[2] \in Nat /\ pt.arm_m[2] > 0
    /\ pt.moment_kg_m \in Nat
    /\ pt.within_limits \in BOOLEAN

CompleteResponse(r) ==
    /\ DOMAIN r = ResponseFields
    /\ \A f \in {"empty_weight_kg", "payload_kg", "fuel_weight_kg", "takeoff_weight_kg",
                 "landing_weight_kg", "zero_fuel_weight_kg"} : r[f] \in Nat
    /\ Len(r.cg_points) = 3
    /\ \A i \in 1..3 : CompletePoint(r.cg_points[i])
    /\ r.within_weight_limits \in BOOLEAN /\ r.within_cg_limits \in BOOLEAN
    /\ \A i \in 1..Len(r.warnings) : r.warnings[i].text \in LimitTexts

\* A complete response whose hazards show as flags and warnings.
HazardsAsFlags(r) ==
    /\ CompleteResponse(r)
    /\ r.landing_weight_kg >= r.zero_fuel_weight_kg
    /\ r.takeoff_weight_kg > aircraft.mtow_kg => ~r.within_weight_limits
    /\ (~r.cg_points[2].within_limits \/ ~r.cg_points[3].within_limits)
          => ~r.within_cg_limits /\ r.warnings # <<>>

\* What calculate answers to the request of the state for either outcome of
\* the chart rendering.
Answers ==
    LET results == CalculateMoments(aircraft, mb_request.weight_inputs,
                                    mb_request.fuel_inputs,
                                    mb_request.fuel_liters_legacy,
                                    mb_request.trip_fuel_liters)
        validation == ValidatePhases(aircraft, results)
    IN  {MassBalanceResponse(aircraft, results, validation, GenerateChart(rendering_fails)) :
            rendering_fails \in BOOLEAN}

\* C16: for every aircraft and request of the model the calculation is
\* defined and its answer is a complete response, before the call as the
\* answer it will give and after the call as the response returned; an
\* overweight load, a point out of the envelope, a CG migration and a trip
\* fuel above the fuel on board show as flags and warnings of that response,
\* never as an error.
C16_AlwaysCompleteResponse ==
    /\ ~MBReturned => (Answers # {} /\ \A r \in Answers : HazardsAsFlags(r))
    /\ MBReturned => (Resp \in Answers /\ HazardsAsFlags(Resp))

\* C16 witness: a complete response to an overweight load whose trip fuel is
\* more than the fuel on board and whose CG leaves the envelope in flight.
C16_Witness ==
    /\ MBReturned /\ mb_locals.called
    /\ CompleteResponse(Resp)
    /\ Resp.takeoff_weight_kg > aircraft.mtow_kg
    /\ ~Resp.within_cg_limits
    /\ 100 * (Resp.takeoff_weight_kg - Resp.zero_fuel_weight_kg)
          = LitersTimesDensity(mb_locals.loaded_qty, 1)
    /\ \E i \in 1..Len(aircraft.fuel_tanks) : mb_locals.loaded_qty[i] > 0
    /\ \A i \in 1..Len(aircraft.fuel_tanks) : mb_locals.landing_qty[i] = 0
    /\ mb_request.trip_fuel_liters >
          LET RECURSIVE Total(_)
              Total(i) == IF i > Len(aircraft.fuel_tanks) THEN 0
                          ELSE mb_locals.loaded_qty[i] + Total(i + 1)
          IN  Total(1)

(***************************************************************************)
(* Claims about the performance service, checked under SpecPerf.           *)
(***************************************************************************)
PerfReturned == perf_response.returned
PResp == perf_response.response
PhaseRes(phase) == perf_locals.phases[phase]
PerfPhaseNames == {"takeoff", "landing"}
IsModeB(phase) == PhaseRes(phase).source = "mode_b_fsm375"
IsModeA(phase) == PhaseRes(phase).source = "mode_a_poh"

\* The four distances of a phase result.
Distances(res) == <<res.ground_roll_raw, res.total_dist_raw, res.ground_roll, res.total_dist>>

\* The phase's profile has a data table.
PhaseHasTable(phase) ==
    LET profile == GetProfile(aircraft, phase)
    IN  profile # None /\ profile.data_tables # None /\ profile.data_tables # EmptyDict

\* The table under that key resolves a value for the weight: it is there,
\* holds a number, and the weight is inside the range it covers.
TableResolves(data_tables, key, weight) ==
    /\ key \in DOMAIN data_tables
    /\ "base" \in DOMAIN data_tables[key]
    /\ "num" \in DOMAIN data_tables[key]["base"]
    /\ "weight_kg" \in DOMAIN data_tables[key] =>
          /\ data_tables[key]["weight_kg"][1] <= weight
          /\ weight <= data_tables[key]["weight_kg"][2]

BothResolved(phase) ==
    LET data_tables == GetProfile(aircraft, phase).data_tables
    IN  /\ TableResolves(data_tables, "ground_roll", perf_request.weight_kg)
        /\ TableResolves(data_tables, "total_dist_50ft", perf_request.weight_kg)

\* C17 as claimed: a phase whose profile has a data table that cannot resolve
\* a value for the inputs is computed by Mode B with a Mode A failure warning
\* naming the phase in the response, and Mode A is the source of a phase only
\* when both values were resolved from the table.
C17_UnresolvedLookupFallsBack ==
    PerfReturned =>
        \A phase \in PerfPhaseNames :
            /\ (PhaseHasTable(phase) /\ ~BothResolved(phase)) =>
                  /\ IsModeB(phase)
                  /\ InWarnings(WarnModeAIncomplete(phase), PResp.warnings)
            /\ IsModeA(phase) => (PhaseHasTable(phase) /\ BothResolved(phase))

\* Tables without any value are taken as Mode A data: the takeoff distances
\* come out as 0 and no warning is given.
C17_EmptyTablesAsModeA ==
    /\ PerfReturned
    /\ GetProfile(aircraft, "takeoff") # None
    /\ GetProfile(aircraft, "takeoff").data_tables
          = [ground_roll |-> EmptyDict, total_dist_50ft |-> EmptyDict]
    /\ PResp.calculation_source = "mode_a_poh"
    /\ PResp.takeoff_ground_roll_m = <<0, 1>>
    /\ PResp.takeoff_distance_50ft_m = <<0, 1>>
    /\ ~InWarnings(WarnModeAIncomplete("takeoff"), PResp.warnings)

\* The ratio weight / MTOW of the request, its square and its cube.
WeightRatio == Rat(perf_request.weight_kg, aircraft.mtow_kg)
RSquare(a) == <<a[1] * a[1], a[2] * a[2]>>
RCube(a) == <<a[1] * a[1] * a[1], a[2] * a[2] * a[2]>>

IsBaselineRequest ==
    /\ perf_request.weight_kg = aircraft.mtow_kg
    /\ perf_request.pressure_altitude_ft = 0
    /\ perf_request.temperature_c = 15
    /\ perf_request.runway_condition = "dry"
    /\ perf_request.wind_component_kt = 0
    /\ perf_request.runway_slope_percent = 0

\* C18: in Mode B the baseline before corrections is, for takeoff, a ground
\* roll of 300 x (weight/MTOW)^2 and a total distance of 1.5 x ground roll,
\* and for landing a ground roll of 250 x (weight/MTOW)^1.5 and a total
\* distance of 1.6 x ground roll; at MTOW, ISA sea level, dry, calm and level
\* the takeoff raw ground roll is 300, the final one 375 and the landing raw
\* ground roll 250.
C18_ModeBBaseline ==
    PerfReturned =>
        /\ IsModeB("takeoff") =>
              /\ PhaseRes("takeoff").base_roll = RMul(RInt(300), RSquare(WeightRatio))
              /\ RMul(PhaseRes("takeoff").base_total, RInt(2))
                    = RMul(PhaseRes("takeoff").base_roll, RInt(3))
              /\ IsBaselineRequest =>
                    /\ PResp.takeoff_ground_roll_raw_m = <<300, 1>>
                    /\ PResp.takeoff_ground_roll_m = <<375, 1>>
        /\ IsModeB("landing") =>
              /\ RSquare(RMul(PhaseRes("landing").base_roll, <<1, 250>>)) = RCube(WeightRatio)
              /\ RMul(PhaseRes("landing").base_total, RInt(5))
                    = RMul(PhaseRes("landing").base_roll, RInt(8))
              /\ IsBaselineRequest => PResp.landing_ground_roll_raw_m = <<250, 1>>

\* C18 witness: the response to the baseline request, both phases in Mode B.
C18_Witness ==
    /\ PerfReturned
    /\ IsBaselineRequest
    /\ IsModeB("takeoff") /\ IsModeB("landing")
    /\ PResp.takeoff_ground_roll_raw_m = <<300, 1>>
    /\ PResp.landing_ground_roll_raw_m = <<250, 1>>

\* A Mode B baseline at a weight below MTOW.
C18_BelowMtow ==
    /\ PerfReturned /\ IsModeB("takeoff") /\ IsModeB("landing")
    /\ perf_request.weight_kg = 768
    /\ PhaseRes("takeoff").base_roll = <<3072, 25>>
    /\ PhaseRes("landing").base_roll = <<128, 1>>

\* The density altitudes of the model's requests.
DensityAltitudes ==
    {CalculateDensityAltitude(r.pressure_altitude_ft, r.temperature_c) : r \in PerfRequests}

\* 1 + max(0, density_altitude) / 1000 x 0.10
DensityFactor(da) == IF da[1] <= 0 THEN <<1, 1>> ELSE RAdd(<<1, 1>>, RMul(da, <<1, 10000>>))

\* The phase computed for the request of the state at another density altitude.
PhaseAtDensityAlt(phase, da) ==
    CalculatePhase(aircraft, phase, GetProfile(aircraft, phase), perf_request.weight_kg, da,
                   perf_request.wind_component_kt, perf_request.runway_condition,
                   perf_request.runway_slope_percent)

HasDensityCorrection(res) ==
    \E i \in 1..Len(res.corrections) : res.corrections[i].text = "Mode B Density Alt Corr"

\* C19: a Mode B phase has its distances multiplied by
\* 1 + max(0, density_altitude)/1000 x 0.10, a factor that is never below 1,
\* is 1 for every density altitude <= 0 and does not decrease with density
\* altitude; a Mode A phase returns the same distances at every density
\* altitude and records no density correction.
C19_DensityCorrectionModeBOnly ==
    PerfReturned =>
        \A phase \in PerfPhaseNames :
            LET da == perf_locals.phases.density_alt
                res == PhaseRes(phase)
                isa == PhaseAtDensityAlt(phase, <<0, 1>>)
            IN  /\ IsModeB(phase) =>
                      /\ HasDensityCorrection(res)
                      /\ \A k \in 1..4 :
                            Distances(res)[k] = RMul(Distances(isa)[k], DensityFactor(da))
                      /\ RLeq(<<1, 1>>, AltFactor(da))
                      /\ da[1] <= 0 => Distances(res) = Distances(isa)
                      /\ \A da2 \in DensityAltitudes :
                            RLeq(da, da2) => RLeq(AltFactor(da), AltFactor(da2))
                /\ IsModeA(phase) =>
                      /\ ~HasDensityCorrection(res)
                      /\ \A da2 \in DensityAltitudes :
                            Distances(PhaseAtDensityAlt(phase, da2)) = Distances(res)

\* C19 witness: a positive density altitude, the takeoff phase in Mode B with
\* longer distances than at ISA, the landing phase in Mode A.
C19_Witness ==
    /\ PerfReturned
    /\ perf_locals.phases.density_alt[1] > 0
    /\ IsModeB("takeoff") /\ IsModeA("landing")
    /\ PhaseRes("takeoff").ground_roll_raw
          # PhaseAtDensityAlt("takeoff", <<0, 1>>).ground_roll_raw
    /\ PhaseRes("landing").ground_roll_raw # <<0, 1>>

\* A Mode B phase at a negative density altitude.
C19_NegativeDensityAlt ==
    PerfReturned /\ perf_locals.phases.density_alt[1] < 0 /\ IsModeB("takeoff")

\* 1 - 0.015 x (|wind| / 2) for a headwind, 1 + 0.10 x (wind / 2) otherwise.
WindFactorClaimed(wind) ==
    IF wind < 0 THEN Rat(400 - 3 * Abs(wind), 400) ELSE Rat(20 + wind, 20)

\* The phase computed for the request of the state in calm air.
PhaseInCalm(phase) ==
    CalculatePhase(aircraft, phase, GetProfile(aircraft, phase), perf_request.weight_kg,
                   perf_locals.phases.density_alt, 0, perf_request.runway_condition,
                   perf_request.runway_slope_percent)

\* C20: the raw and final ground roll and total distance of both phases are
\* those of calm air times 1 - 0.015 x (|wind|/2) for a headwind and times
\* 1 + 0.10 x (wind/2) for wind >= 0, the factor of zero wind being 1; a 5 kt
\* tailwind at MTOW, ISA sea level, dry and level gives a Mode B takeoff raw
\* ground roll of 300 x 1.25 = 375.
C20_WindCorrection ==
    PerfReturned =>
        /\ \A phase \in PerfPhaseNames : \A k \in 1..4 :
              Distances(PhaseRes(phase))[k]
                  = RMul(Distances(PhaseInCalm(phase))[k],
                         WindFactorClaimed(perf_request.wind_component_kt))
        /\ WindFactorClaimed(0) = <<1, 1>>
        /\ ( /\ IsModeB("takeoff")
             /\ perf_request.weight_kg = aircraft.mtow_kg
             /\ perf_request.pressure_altitude_ft = 0 /\ perf_request.temperature_c = 15
             /\ perf_request.runway_condition = "dry"
             /\ perf_request.runway_slope_percent = 0
             /\ perf_request.wind_component_kt = 5 )
              => PResp.takeoff_ground_roll_raw_m = <<375, 1>>

\* C20 witness: the 5 kt tailwind at MTOW, ISA sea level, dry and level.
C20_Witness ==
    /\ PerfReturned
    /\ IsModeB("takeoff")
    /\ perf_request.weight_kg = aircraft.mtow_kg
    /\ perf_request.temperature_c = 15
    /\ perf_request.runway_condition = "dry"
    /\ perf_request.runway_slope_percent = 0
    /\ perf_request.wind_component_kt = 5
    /\ PResp.takeoff_ground_roll_raw_m = <<375, 1>>

\* A headwind shortens the distances of both phases.
C20_Headwind ==
    /\ PerfReturned
    /\ perf_request.wind_component_kt = -20
    /\ PhaseRes("takeoff").ground_roll_raw
          = RMul(PhaseInCalm("takeoff").ground_roll_raw, <<17, 20>>)
    /\ PhaseRes("landing").ground_roll_raw
          = RMul(PhaseInCalm("landing").ground_roll_raw, <<17, 20>>)

(***************************************************************************)
(* Claims about the advisory, the slope and the safety factor, checked     *)
(* under SpecPerf.                                                         *)
(***************************************************************************)
TailwindText == "Tailwind increases takeoff/landing distances"

\* How many entries of a list carry the text.
CountText(list, text) == Cardinality({i \in 1..Len(list) : list[i].text = text})

\* C21: the tailwind advisory is in the warnings of the response exactly when
\* the wind component is strictly positive, and then exactly once, naming the
\* wind; calm air and headwinds give none.
C21_TailwindAdvisoryIff ==
    PerfReturned =>
        /\ CountText(PResp.warnings, TailwindText)
              = (IF perf_request.wind_component_kt > 0 THEN 1 ELSE 0)
        /\ \A i \in 1..Len(PResp.warnings) :
              PResp.warnings[i].text = TailwindText
                  => PResp.warnings[i].wind = perf_request.wind_component_kt

\* C21 witness: a tailwind whose advisory stands beside two fallback warnings.
C21_Witness ==
    /\ PerfReturned
    /\ perf_request.wind_component_kt > 0
    /\ Len(PResp.warnings) = 3
    /\ CountText(PResp.warnings, TailwindText) = 1

\* Calm air: no advisory.
C21_Calm ==
    /\ PerfReturned
    /\ perf_request.wind_component_kt = 0
    /\ CountText(PResp.warnings, TailwindText) = 0

\* 1 + 0.05 x slope for takeoff, 1 - 0.05 x slope for landing.
SlopeFactorClaimed(slope, phase) ==
    IF phase = "takeoff" THEN Rat(20 + slope, 20) ELSE Rat(20 - slope, 20)

\* The phase computed for the request of the state on a level runway.
PhaseOnLevel(phase) ==
    CalculatePhase(aircraft, phase, GetProfile(aircraft, phase), perf_request.weight_kg,
                   perf_locals.phases.density_alt, perf_request.wind_component_kt,
                   perf_request.runway_condition, 0)

SlopeEntries(res) == {i \in 1..Len(res.corrections) : res.corrections[i].text = "Slope"}

\* C22: on a runway of slope s # 0 the raw and final distances of takeoff are
\* those of the level runway times 1 + 0.05 s and those of landing times
\* 1 - 0.05 s, so that an upslope lengthens takeoff and shortens landing and a
\* downslope does the reverse, and each phase records one slope correction;
\* on a level runway no slope correction is recorded.
C22_SlopeCorrection ==
    PerfReturned =>
        LET s == perf_request.runway_slope_percent
        IN  \A phase \in PerfPhaseNames :
               /\ \A k \in 1..4 :
                     Distances(PhaseRes(phase))[k]
                         = RMul(Distances(PhaseOnLevel(phase))[k], SlopeFactorClaimed(s, phase))
               /\ s # 0 =>
                     /\ Cardinality(SlopeEntries(PhaseRes(phase))) = 1
                     /\ \A i \in SlopeEntries(PhaseRes(phase)) :
                           /\ PhaseRes(phase).corrections[i].slope = s
                           /\ PhaseRes(phase).corrections[i].factor
                                 = Fmt2(SlopeFactorClaimed(s, phase))
               /\ s = 0 => SlopeEntries(PhaseRes(phase)) = {}
               /\ (s > 0) => ( /\ RLeq(<<1, 1>>, SlopeFactorClaimed(s, "takeoff"))
                               /\ RLeq(SlopeFactorClaimed(s, "landing"), <<1, 1>>)
                               /\ SlopeFactorClaimed(s, "takeoff") # <<1, 1>> )
               /\ (s < 0) => ( /\ RLeq(SlopeFactorClaimed(s, "takeoff"), <<1, 1>>)
                               /\ RLeq(<<1, 1>>, SlopeFactorClaimed(s, "landing"))
                               /\ SlopeFactorClaimed(s, "landing") # <<1, 1>> )

\* C22 witness: a 2 % upslope: takeoff 1.10 times, landing 0.90 times the
\* level distances, which are not zero.
C22_Witness ==
    /\ PerfReturned
    /\ perf_request.runway_slope_percent = 2
    /\ PhaseOnLevel("takeoff").ground_roll_raw # <<0, 1>>
    /\ PhaseOnLevel("landing").ground_roll_raw # <<0, 1>>
    /\ PhaseRes("takeoff").ground_roll_raw
          = RMul(PhaseOnLevel("takeoff").ground_roll_raw, <<11, 10>>)
    /\ PhaseRes("landing").ground_roll_raw
          = RMul(PhaseOnLevel("landing").ground_roll_raw, <<9, 10>>)

\* A level runway, with no slope correction among those applied.
C22_Level ==
    /\ PerfReturned
    /\ perf_request.runway_slope_percent = 0
    /\ CountText(PResp.corrections_applied, "Slope") = 0

\* A downslope.
C22_Downslope ==
    /\ PerfReturned
    /\ perf_request.runway_slope_percent < 0
    /\ CountText(PResp.corrections_applied, "Slope") = 2

\* grass 1.20, wet 1.15, dry 1.
SurfaceFactorClaimed(condition) ==
    IF condition = "grass" THEN <<6, 5>> ELSE IF condition = "wet" THEN <<23, 20>> ELSE <<1, 1>>

SafetyFactorClaimed(phase) == IF phase = "takeoff" THEN <<5, 4>> ELSE <<133, 100>>

\* The base distance times the density (Mode B only), wind, surface and slope
\* factors of the request, the safety factor left out.
CorrectedBase(phase, base) ==
    LET dens == IF IsModeB(phase) THEN DensityFactor(perf_locals.phases.density_alt)
                ELSE <<1, 1>>
    IN  RMul(RMul(RMul(RMul(base, dens), WindFactorClaimed(perf_request.wind_component_kt)),
                  SurfaceFactorClaimed(perf_request.runway_condition)),
             SlopeFactorClaimed(perf_request.runway_slope_percent, phase))

DistanceFields ==
    {"takeoff_ground_roll_m", "takeoff_distance_50ft_m",
     "takeoff_ground_roll_raw_m", "takeoff_distance_50ft_raw_m",
     "landing_ground_roll_m", "landing_distance_50ft_m",
     "landing_ground_roll_raw_m", "landing_distance_50ft_raw_m"}

\* C23: each final distance is the raw distance times 1.25 for takeoff and
\* 1.33 for landing; the raw distance is the base distance with the density,
\* wind, surface and slope corrections and without the safety factor; the
\* response carries the raw and the final value of all four distances.
C23_SafetyFactor ==
    PerfReturned =>
        /\ DistanceFields \subseteq DOMAIN PResp
        /\ PResp.takeoff_ground_roll_m = RMul(PResp.takeoff_ground_roll_raw_m, <<5, 4>>)
        /\ PResp.takeoff_distance_50ft_m = RMul(PResp.takeoff_distance_50ft_raw_m, <<5, 4>>)
        /\ PResp.landing_ground_roll_m = RMul(PResp.landing_ground_roll_raw_m, <<133, 100>>)
        /\ PResp.landing_distance_50ft_m
              = RMul(PResp.landing_distance_50ft_raw_m, <<133, 100>>)
        /\ PResp.takeoff_ground_roll_raw_m
              = CorrectedBase("takeoff", PhaseRes("takeoff").base_roll)
        /\ PResp.takeoff_distance_50ft_raw_m
              = CorrectedBase("takeoff", PhaseRes("takeoff").base_total)
        /\ PResp.landing_ground_roll_raw_m
              = CorrectedBase("landing", PhaseRes("landing").base_roll)
        /\ PResp.landing_distance_50ft_raw_m
              = CorrectedBase("landing", PhaseRes("landing").base_total)
        /\ \A phase \in PerfPhaseNames :
              LET c == PhaseRes(phase).corrections
              IN  /\ c[Len(c)].text = "Safety Factor"
                  /\ c[Len(c)].factor = Fmt2(SafetyFactorClaimed(phase))

\* C23 witness: a hot day, tailwind, grass and upslope in Mode B: the raw
\* landing roll differs from the base and the final from the raw by 1.33.
C23_Witness ==
    /\ PerfReturned
    /\ IsModeB("takeoff") /\ IsModeB("landing")
    /\ perf_request.temperature_c = 40
    /\ perf_request.wind_component_kt = 5
    /\ perf_request.runway_condition = "grass"
    /\ perf_request.runway_slope_percent = 2
    /\ PResp.landing_ground_roll_raw_m # PhaseRes("landing").base_roll
    /\ PResp.landing_ground_roll_m = RMul(PResp.landing_ground_roll_raw_m, <<133, 100>>)
    /\ PResp.landing_ground_roll_m # RMul(PResp.landing_ground_roll_raw_m, <<5, 4>>)
    /\ PResp.takeoff_ground_roll_m = RMul(PResp.takeoff_ground_roll_raw_m, <<5, 4>>)

\* The same in Mode A.
C23_ModeA ==
    /\ PerfReturned
    /\ IsModeA("takeoff") /\ IsModeA("landing")
    /\ PhaseRes("landing").base_roll = <<400, 1>>
    /\ perf_request.runway_condition = "wet"
    /\ PResp.landing_ground_roll_m = RMul(PResp.landing_ground_roll_raw_m, <<133, 100>>)

(***************************************************************************)
(* Claims about corrections_applied, calculation_source and the sign of    *)
(* the distances, checked under SpecPerf.                                  *)
(***************************************************************************)
\* The corrections of both phases in the order applied.
AllCorrections == PhaseRes("takeoff").corrections \o PhaseRes("landing").corrections

FirstIndex(seq, x) ==
    CHOOSE i \in 1..Len(seq) : seq[i] = x /\ \A k \in 1..(i - 1) : seq[k] # x

\* density, wind, surface, slope, safety.
CorrectionRank(c) ==
    CASE c.text = "Mode B Density Alt Corr" -> 1
      [] c.text \in {"Wind (-)", "Wind (+)"} -> 2
      [] c.text \in {"Grass Surface", "Wet Surface"} -> 3
      [] c.text = "Slope" -> 4
      [] c.text = "Safety Factor" -> 5

\* Within a phase: density, wind, surface, slope, safety.
PhaseCorrectionsInOrder(phase) ==
    LET c == PhaseRes(phase).corrections
    IN  \A i \in 1..Len(c) : \A k \in 1..Len(c) :
           i < k => CorrectionRank(c[i]) < CorrectionRank(c[k])

\* C24: corrections_applied holds every correction of the two phases in the
\* order applied (takeoff before landing; within a phase density, wind,
\* surface, slope, safety), and a description that both phases produce
\* identically appears once.
C24_OrderedAndDeduplicated ==
    PerfReturned =>
        LET ca == PResp.corrections_applied
        IN  /\ Elements(ca) = Elements(AllCorrections)
            /\ \A phase \in PerfPhaseNames : PhaseCorrectionsInOrder(phase)
            /\ \A i \in 1..Len(ca) : \A k \in 1..Len(ca) :
                  i < k => /\ ca[i] # ca[k]
                           /\ FirstIndex(AllCorrections, ca[i])
                                 < FirstIndex(AllCorrections, ca[k])

\* What the code does: the takeoff list followed by the landing list, each in
\* the order applied, descriptions common to both phases twice.
C24_Concatenated ==
    PerfReturned =>
        /\ PResp.corrections_applied = AllCorrections
        /\ \A phase \in PerfPhaseNames : PhaseCorrectionsInOrder(phase)
        /\ \E i \in 1..Len(AllCorrections) : \E k \in 1..Len(AllCorrections) :
              i < k /\ AllCorrections[i] = AllCorrections[k]

\* "Grass Surface: 1.20x" twice in one response.
C24_GrassTwice ==
    /\ PerfReturned
    /\ perf_request.runway_condition = "grass"
    /\ CountText(PResp.corrections_applied, "Grass Surface") = 2

\* C29: calculation_source is "mode_a_poh" only if both phases took their
\* distances from table data; if either phase is Mode B it is "mode_b_fsm375".
C29_SourceOfBothPhases ==
    PerfReturned =>
        /\ PResp.calculation_source \in {"mode_a_poh", "mode_b_fsm375"}
        /\ PResp.calculation_source = "mode_a_poh"
              <=> (IsModeA("takeoff") /\ IsModeA("landing"))

\* What the code does: the source of the takeoff phase.
C29_SourceOfTakeoff ==
    PerfReturned => PResp.calculation_source = PhaseRes("takeoff").source

\* Takeoff from the table, landing from the FSM 3/75 formula, reported as POH.
C29_MixedReportedAsPoh ==
    /\ PerfReturned
    /\ IsModeA("takeoff") /\ IsModeB("landing")
    /\ PResp.calculation_source = "mode_a_poh"

Positive(r) == r[1] > 0 /\ r[2] > 0

\* C30: in Mode B every one of the eight distances of the response is
\* strictly positive, for every weight > 0, slope, runway condition and wind
\* component, however strong the headwind.
C30_ModeBDistancesPositive ==
    (PerfReturned /\ IsModeB("takeoff") /\ IsModeB("landing")) =>
        \A f \in DistanceFields : Positive(PResp[f])

\* Up to a headwind of 133 kt the distances are positive.
C30_PositiveBelow134kt ==
    (PerfReturned /\ IsModeB("takeoff") /\ IsModeB("landing")
        /\ perf_request.wind_component_kt > -134) =>
        \A f \in DistanceFields : Positive(PResp[f])

\* A 140 kt headwind: factor 1 - 0.0075 x 140 = -0.05, negative distances.
C30_NegativeDistance ==
    /\ PerfReturned
    /\ IsModeB("takeoff")
    /\ perf_request.wind_component_kt = -140
    /\ PResp.takeoff_ground_roll_m[1] < 0

(***************************************************************************)
(* Claims about fuel conservation, within_cg_limits and the empty warning  *)
(* list, checked under SpecMB.                                             *)
(***************************************************************************)
RECURSIVE SumQty(_, _)
\* q[1] + ... + q[n]
SumQty(q, n) == IF n = 0 THEN 0 ELSE q[n] + SumQty(q, n - 1)

Max(a, b) == IF a >= b THEN a ELSE b

TotalLoaded == SumQty(mb_locals.loaded_qty, Len(aircraft.fuel_tanks))
TotalLanding == SumQty(mb_locals.landing_qty, Len(aircraft.fuel_tanks))

\* C26: the burn loop conserves fuel: the landing quantities of all tanks sum
\* to max(0, total loaded - trip fuel); no tank lands below zero or above its
\* loaded quantity; zero-fuel weight <= landing weight <= takeoff weight; and
\* with a trip fuel of at least the total loaded, landing weight and moment
\* are the zero-fuel weight and moment.
C26_FuelConserved ==
    MBReturned =>
        /\ TotalLanding = Max(0, TotalLoaded - mb_request.trip_fuel_liters)
        /\ \A i \in 1..Len(aircraft.fuel_tanks) :
              /\ 0 <= mb_locals.landing_qty[i]
              /\ mb_locals.landing_qty[i] <= mb_locals.loaded_qty[i]
        /\ Resp.zero_fuel_weight_kg <= Resp.landing_weight_kg
        /\ Resp.landing_weight_kg <= Resp.takeoff_weight_kg
        /\ mb_request.trip_fuel_liters >= TotalLoaded =>
              /\ LandingPoint.weight_kg = ZeroFuelPoint.weight_kg
              /\ LandingPoint.moment_kg_m = ZeroFuelPoint.moment_kg_m
              /\ Resp.landing_weight_kg = Resp.zero_fuel_weight_kg

\* C26 witness: two tanks with fuel and a trip fuel that empties one and
\* drains the other in part; the three weights differ.
C26_Witness ==
    /\ MBReturned
    /\ Cardinality({i \in 1..Len(aircraft.fuel_tanks) : mb_locals.loaded_qty[i] > 0}) >= 2
    /\ 0 < mb_request.trip_fuel_liters
    /\ mb_request.trip_fuel_liters < TotalLoaded
    /\ TotalLanding = TotalLoaded - mb_request.trip_fuel_liters
    /\ \E i \in 1..Len(aircraft.fuel_tanks) :
          mb_locals.loaded_qty[i] > 0 /\ mb_locals.landing_qty[i] = 0
    /\ Resp.zero_fuel_weight_kg < Resp.landing_weight_kg
    /\ Resp.landing_weight_kg < Resp.takeoff_weight_kg

\* More trip fuel than fuel on board: the aircraft lands at zero-fuel weight.
C26_TripExceedsLoaded ==
    /\ MBReturned
    /\ TotalLoaded > 0
    /\ mb_request.trip_fuel_liters > TotalLoaded
    /\ TotalLanding = 0
    /\ LandingPoint.weight_kg = ZeroFuelPoint.weight_kg
    /\ LandingPoint.weight_kg < TakeoffPoint.weight_kg

AllPointsWithin == \A i \in 1..3 : Resp.cg_points[i].within_limits

\* C27: within_cg_limits = true implies that each of the three CG points of
\* the response, Zero Fuel, Takeoff and Landing, has within_limits = true.
C27_CgFlagCoversAllPoints ==
    MBReturned => (Resp.within_cg_limits => AllPointsWithin)

\* What the code does: the flag is the conjunction of takeoff and landing.
C27_CgFlagIsTakeoffAndLanding ==
    MBReturned =>
        Resp.within_cg_limits = (TakeoffPoint.within_limits /\ LandingPoint.within_limits)

\* within_cg_limits = true with the zero-fuel point out of limits.
C27_ZeroFuelOutFlagTrue ==
    /\ MBReturned
    /\ Resp.within_cg_limits
    /\ ~ZeroFuelPoint.within_limits

\* C28: the warnings list of the response is empty exactly when
\* within_weight_limits is true and all three CG points are within limits.
C28_NoWarningsIffAllWithin ==
    MBReturned =>
        (Resp.warnings = <<>> <=> (Resp.within_weight_limits /\ AllPointsWithin))

\* C28 witness: an aircraft with an envelope, fuel burnt, everything within
\* limits and no warning.
C28_Witness ==
    /\ MBReturned
    /\ mb_locals.validation.envelope # None
    /\ Resp.within_weight_limits /\ AllPointsWithin
    /\ TakeoffPoint.weight_kg # LandingPoint.weight_kg
    /\ Resp.warnings = <<>>

\* Only the zero-fuel point out of limits, weight within limits: warnings.
C28_OnlyZeroFuelOut ==
    /\ MBReturned
    /\ Resp.within_weight_limits
    /\ TakeoffPoint.within_limits /\ LandingPoint.within_limits
    /\ ~ZeroFuelPoint.within_limits
    /\ Resp.warnings # <<>>

\* Only the weight out of limits.
C28_OnlyOverweight ==
    /\ MBReturned
    /\ ~Resp.within_weight_limits /\ AllPointsWithin
    /\ Len(Resp.warnings) = 1

(***************************************************************************)
(* Claim about concurrent calculations, checked under SpecConc.            *)
(***************************************************************************)
\* What the performance calculation answers to the request of the state when
\* it runs alone, for every order list(set(warnings)) may return.
PerfAnswers ==
    LET phases == PerformancePhases(aircraft, perf_request)
    IN  {PerformanceResponse(phases, listed) :
            listed \in ListsOfSet(Elements(PerformanceWarnings(
                                               phases, perf_request.wind_component_kt)))}

\* No step changes the aircraft or the arguments of either caller.
C25_InputsUntouched ==
    /\ aircraft' = aircraft
    /\ mb_request' = mb_request
    /\ perf_request' = perf_request

\* A response returned is one the calculation gives when it runs alone.
C25_SameAsAlone ==
    /\ MBReturned => Resp \in Answers
    /\ PerfReturned => PResp \in PerfAnswers

\* C25: a mass and balance or a performance calculation leaves the aircraft
\* and the caller's weight and fuel inputs unchanged, and however the steps
\* of concurrent calculations on the same aircraft interleave, each returns
\* the response it gives when it runs alone.
C25_InterleavingSafe == [][C25_InputsUntouched]_vars /\ []C25_SameAsAlone

\* C25 witness: both calculations have returned, each after steps taken while
\* the other was in flight, the mass and balance one on two tanks with fuel
\* burnt; the aircraft is an aircraft of the fleet as it was.
C25_Witness ==
    /\ MBReturned /\ PerfReturned
    /\ mb_locals.interleaved /\ perf_locals.interleaved
    /\ aircraft \in ConcFleet
    /\ Len(aircraft.fuel_tanks) = 2
    /\ TotalLanding < TotalLoaded
    /\ Resp \in Answers
    /\ PResp \in PerfAnswers

\* Both calls in flight at once.
C25_BothInFlight ==
    /\ MBInFlight /\ PerfInFlight
    /\ mb_locals.pc = "respond" /\ perf_locals.pc = "respond"

====
